---------------------------- MODULE Spec2Model ----------------------------
(***************************************************************************)
(* willow: a derive macro (willow_codegen::Program) that turns an          *)
(* annotated struct into a WebGL program wrapper, an attribute struct with *)
(* reflection and a type-state uniform builder.                            *)
(*                                                                         *)
(* The model has two halves.                                               *)
(*   - Macro expansion: parse_input / FieldOutput::from_field (parse.rs),  *)
(*     gen_code and its three generators (gen.rs), program / program_imp   *)
(*     (codegen lib.rs).  The derive input is abstract syntax: the item    *)
(*     kind, the list of struct-level attributes and the list of fields    *)
(*     (declared type and field-level attributes).                         *)
(*   - The generated code at run time: the builder values a client holds,  *)
(*     the uniform location cells of the program, and the GL calls a draw  *)
(*     issues.  Which method is callable on which builder type is decided  *)
(*     by matching the builder's type against the impl headers that        *)
(*     gen_builder emits, as the Rust type checker does.                   *)
(***************************************************************************)
EXTENDS Integers, Sequences, FiniteSets, TLC

(***************************************************************************)
(* Bounds of the model.                                                    *)
(***************************************************************************)
\* longest field list of a derive input drawn by InitParse
MaxFields == 2
\* largest number of uniforms of the program the run-time half executes
MaxUniforms == 2
\* the longest field list of the structs of SpecFields
MaxRoleFields == 3
\* the most programs a create_programs! invocation lists
MaxPrograms == 2
\* the most records of a vertex buffer and the most indices of an index buffer
MaxCount == 2
\* the most attribute fields of the structs of SpecProgram
MaxAttrs == 2

(***************************************************************************)
(* Abstract syntax of the derive input.                                    *)
(***************************************************************************)
SeqsUpTo(S, n) == UNION {[1..k -> S] : k \in 0..n}

\* syn::Data / syn::Fields shapes
ItemKinds == {"struct_named", "struct_tuple", "struct_unit", "enum", "union"}

\* struct-level attributes: #[willow(path = "p")], #[willow(vert = V)],
\* #[willow(frag = F)], #[willow(other)] (unsupported keyword), #[doc = ".."]
StructAttrSyntax == {"path", "vert", "frag", "unsupported", "doc"}

\* field-level attributes: #[willow(attribute(OvrA))], #[willow(uniform(OvrU))],
\* #[willow(gl_name = "custom")], #[willow(data)], #[willow(normalized)]
FieldAttrSyntax == {"attribute", "uniform", "gl_name", "data", "normalized"}

\* a declared field type: the path segments and the first generic argument of
\* the last segment ("none" when the segment has no angle brackets)
TypePath(segments, arg) == [segments |-> segments, arg |-> arg]

DeclaredTypes ==
    { TypePath(<<"ProgramData">>, "none"),
      TypePath(<<"willow", "ProgramData">>, "none"),
      TypePath(<<"Attribute">>, "i8"),
      TypePath(<<"Uniform">>, "f32"),
      TypePath(<<"Uniform">>, "none"),
      TypePath(<<"i32">>, "none") }

FieldNames == <<"f1", "f2", "f3", "f4", "f5", "f6">>

\* the attribute lists a field may carry
FieldAttrLists == SeqsUpTo(FieldAttrSyntax, 1)

\* the attribute lists a struct may carry
StructAttrLists == SeqsUpTo(StructAttrSyntax, 2)

FieldSyntax == [ty : DeclaredTypes, attrs : FieldAttrLists]

DeriveInputs ==
    [kind : {"struct_named"}, attrs : StructAttrLists,
     fields : SeqsUpTo(FieldSyntax, MaxFields)]
    \cup
    [kind : ItemKinds \ {"struct_named"}, attrs : StructAttrLists,
     fields : {<<>>}]

(***************************************************************************)
(* Results (syn::Result).                                                  *)
(***************************************************************************)
Ok(v) == [ok |-> TRUE, val |-> v]
Err(msg) == [ok |-> FALSE, err |-> msg]

(***************************************************************************)
(* parse.rs                                                                *)
(***************************************************************************)
\* syn::Path::is_ident: a single segment without arguments
is_ident(path, name) ==
    /\ Len(path.segments) = 1
    /\ path.arg = "none"
    /\ path.segments[1] = name

is_ending_ident(path, name) ==
    IF Len(path.segments) > 0
    THEN path.segments[Len(path.segments)] = name
    ELSE FALSE

\* impl Parse for FieldAttr
FieldAttr_parse(a) ==
    CASE a = "normalized" -> Ok([kind |-> "Normalized"])
      [] a = "attribute"  -> Ok([kind |-> "Attribute", ty |-> "OvrA"])
      [] a = "uniform"    -> Ok([kind |-> "Uniform", ty |-> "OvrU"])
      [] a = "gl_name"    -> Ok([kind |-> "GlName", name |-> "custom"])
      [] a = "data"       -> Ok([kind |-> "Data"])
      [] OTHER            -> Err("Unsupported attribute")

\* the effect of one parsed field attribute on the locals of from_field
from_field_apply(st, a) ==
    CASE a.kind = "Attribute" ->
           [st EXCEPT !.field_type = "Attribute", !.ty = a.ty]
      [] a.kind = "Uniform" ->
           [st EXCEPT !.field_type = "Uniform", !.ty = a.ty]
      [] a.kind = "GlName" -> [st EXCEPT !.gl_name = a.name]
      [] a.kind = "Data" -> [st EXCEPT !.field_type = "Data", !.ty = "none"]
      [] a.kind = "Normalized" -> [st EXCEPT !.normalized = TRUE]

\* the loop over field.attrs of from_field; st holds the loop's locals and p
\* is the parse result of attribute k (the ? operator returns its error)
RECURSIVE from_field_attrs(_, _, _)
RECURSIVE from_field_attrs_step(_, _, _, _)
from_field_attrs_step(attrs, k, st, p) ==
    IF ~p.ok THEN p
    ELSE from_field_attrs(attrs, k + 1, from_field_apply(st, p.val))

from_field_attrs(attrs, k, st) ==
    IF k > Len(attrs) THEN Ok(st)
    ELSE IF attrs[k] = "doc" THEN from_field_attrs(attrs, k + 1, st)
    ELSE from_field_attrs_step(attrs, k, st, FieldAttr_parse(attrs[k]))


\* mutant: a field of an unrelated type is given the program-data role
from_field_type_DefaultsToData(st, ty) ==
    IF is_ident(ty, "ProgramData")
    THEN Ok([st EXCEPT !.field_type = "Data"])
    ELSE IF is_ending_ident(ty, "Uniform") \/ is_ending_ident(ty, "Attribute")
    THEN IF ty.arg = "none"
         THEN Err("Attribute/Uniform requires a type parameter")
         ELSE IF is_ending_ident(ty, "Attribute")
              THEN Ok([st EXCEPT !.field_type = "Attribute", !.ty = ty.arg])
              ELSE Ok([st EXCEPT !.field_type = "Uniform", !.ty = ty.arg])
    ELSE Ok([st EXCEPT !.field_type = "Data"])

\* the match on field.ty of from_field, taken when no attribute gave a role
from_field_type(st, ty) ==
    IF is_ident(ty, "ProgramData")
    THEN Ok([st EXCEPT !.field_type = "Data"])
    ELSE IF is_ending_ident(ty, "Uniform") \/ is_ending_ident(ty, "Attribute")
    THEN IF ty.arg = "none"
         THEN Err("Attribute/Uniform requires a type parameter")
         ELSE IF is_ending_ident(ty, "Attribute")
              THEN Ok([st EXCEPT !.field_type = "Attribute", !.ty = ty.arg])
              ELSE Ok([st EXCEPT !.field_type = "Uniform", !.ty = ty.arg])
    ELSE Err("This field appears to be irrelevant with the GLSL")


\* mutant: the declared type is matched even when an override gave the role
from_field_typed_TypeAlways(looped, ty) ==
    IF ~looped.ok THEN looped
    ELSE from_field_type(looped.val, ty)

\* from_field after the attribute loop: if field_type.is_none() { match .. }
from_field_typed(looped, ty) ==
    IF ~looped.ok THEN looped
    ELSE IF looped.val.field_type = "None"
    THEN from_field_type(looped.val, ty)
    ELSE looped

\* from_field's closing match on field_type
from_field_output(field_name, typed) ==
    IF ~typed.ok THEN typed
    ELSE CASE typed.val.field_type = "Attribute" ->
                Ok([role |-> "Attribute", field |-> field_name,
                    ty |-> typed.val.ty, gl |-> typed.val.gl_name,
                    normalized |-> typed.val.normalized])
           [] typed.val.field_type = "Uniform" ->
                Ok([role |-> "Uniform", field |-> field_name,
                    ty |-> typed.val.ty, gl |-> typed.val.gl_name])
           [] typed.val.field_type = "Data" ->
                Ok([role |-> "ProgramData", field |-> field_name])

\* FieldOutput::from_field
from_field(field_name, field) ==
    from_field_output(field_name,
        from_field_typed(
            from_field_attrs(field.attrs, 1,
                [field_type |-> "None", ty |-> "none",
                 gl_name |-> field_name, normalized |-> FALSE]),
            field.ty))

\* impl Parse for StructAttr
StructAttr_parse(a) ==
    CASE a = "path" -> Ok([kind |-> "Path", path |-> "p"])
      [] a = "vert" -> Ok([kind |-> "VertexCode", expr |-> "V"])
      [] a = "frag" -> Ok([kind |-> "FragmentCode", expr |-> "F"])
      [] OTHER      -> Err("Unsupported attribute")

\* CodeSource::File(span, format!("{}.ext", path)) and CodeSource::Expr
CodeSource_File(path, ext) == [kind |-> "File", path |-> path, ext |-> ext]
CodeSource_Expr(expr) == [kind |-> "Expr", path |-> expr, ext |-> "none"]
NoSource == [kind |-> "None", path |-> "none", ext |-> "none"]


\* mutant: a source that is already given is kept, the later form is ignored
parse_struct_apply_FirstWins(st, a) ==
    CASE a.kind = "Path" ->
           [vertex_source |->
                IF st.vertex_source = NoSource
                THEN CodeSource_File(a.path, "vert") ELSE st.vertex_source,
            fragment_source |->
                IF st.fragment_source = NoSource
                THEN CodeSource_File(a.path, "frag") ELSE st.fragment_source]
      [] a.kind = "VertexCode" ->
           IF st.vertex_source = NoSource
           THEN [st EXCEPT !.vertex_source = CodeSource_Expr(a.expr)] ELSE st
      [] a.kind = "FragmentCode" ->
           IF st.fragment_source = NoSource
           THEN [st EXCEPT !.fragment_source = CodeSource_Expr(a.expr)] ELSE st

\* the effect of one parsed struct attribute on vertex_source / fragment_source
parse_struct_apply(st, a) ==
    CASE a.kind = "Path" ->
           [vertex_source |-> CodeSource_File(a.path, "vert"),
            fragment_source |-> CodeSource_File(a.path, "frag")]
      [] a.kind = "VertexCode" ->
           [st EXCEPT !.vertex_source = CodeSource_Expr(a.expr)]
      [] a.kind = "FragmentCode" ->
           [st EXCEPT !.fragment_source = CodeSource_Expr(a.expr)]

\* the loop over input.attrs of parse_input
RECURSIVE parse_struct_attrs(_, _, _)
RECURSIVE parse_struct_attrs_step(_, _, _, _)
parse_struct_attrs_step(attrs, k, st, p) ==
    IF ~p.ok THEN p
    ELSE parse_struct_attrs(attrs, k + 1, parse_struct_apply(st, p.val))

parse_struct_attrs(attrs, k, st) ==
    IF k > Len(attrs) THEN Ok(st)
    ELSE IF attrs[k] = "doc" THEN parse_struct_attrs(attrs, k + 1, st)
    ELSE parse_struct_attrs_step(attrs, k, st, StructAttr_parse(attrs[k]))


\* mutant: an attribute or uniform is put at the front of its list
parse_fields_push_Prepend(st, out) ==
    CASE out.role = "Attribute" -> [st EXCEPT !.attributes = <<out>> \o @]
      [] out.role = "Uniform" -> [st EXCEPT !.uniforms = <<out>> \o @]
      [] out.role = "ProgramData" -> [st EXCEPT !.program_data = out.field]

\* the match arms of the field loop of parse_input
parse_fields_push(st, out) ==
    CASE out.role = "Attribute" -> [st EXCEPT !.attributes = Append(@, out)]
      [] out.role = "Uniform" -> [st EXCEPT !.uniforms = Append(@, out)]
      [] out.role = "ProgramData" -> [st EXCEPT !.program_data = out.field]

\* the loop over fields.named of parse_input
RECURSIVE parse_fields(_, _, _)
RECURSIVE parse_fields_step(_, _, _, _)
parse_fields_step(fields, k, st, f) ==
    IF ~f.ok THEN f
    ELSE parse_fields(fields, k + 1, parse_fields_push(st, f.val))

parse_fields(fields, k, st) ==
    IF k > Len(fields) THEN Ok(st)
    ELSE parse_fields_step(fields, k, st, from_field(FieldNames[k], fields[k]))

\* mutant: the program-data check is dropped
parse_checks_NoDataCheck(sources, collected) ==
    IF sources.vertex_source = NoSource
    THEN Err("Cannot infer vertex code")
    ELSE IF sources.fragment_source = NoSource
    THEN Err("Cannot infer fragment code")
    ELSE Ok([vertex_source |-> sources.vertex_source,
             fragment_source |-> sources.fragment_source,
             attributes |-> collected.attributes,
             uniforms |-> collected.uniforms,
             program_data |-> collected.program_data])

\* mutant: the two source checks are dropped
parse_checks_NoSourceCheck(sources, collected) ==
    IF collected.program_data = "None"
    THEN Err("Program struct must have exactly one field with type ProgramData or #[willow(data)]")
    ELSE Ok([vertex_source |-> sources.vertex_source,
             fragment_source |-> sources.fragment_source,
             attributes |-> collected.attributes,
             uniforms |-> collected.uniforms,
             program_data |-> collected.program_data])

\* the three checks that close parse_input, and the Input it returns
parse_checks(sources, collected) ==
    IF sources.vertex_source = NoSource
    THEN Err("Cannot infer vertex code")
    ELSE IF sources.fragment_source = NoSource
    THEN Err("Cannot infer fragment code")
    ELSE IF collected.program_data = "None"
    THEN Err("Program struct must have exactly one field with type ProgramData or #[willow(data)]")
    ELSE Ok([vertex_source |-> sources.vertex_source,
             fragment_source |-> sources.fragment_source,
             attributes |-> collected.attributes,
             uniforms |-> collected.uniforms,
             program_data |-> collected.program_data])

\* parse_input once the field loop has run
parse_input_collected(sources, collected) ==
    IF ~collected.ok THEN collected
    ELSE parse_checks(sources, collected.val)


\* mutant: the two shape checks are dropped
parse_input_shape_NoShapeCheck(ts_, sources) ==
    IF ~sources.ok THEN sources
    ELSE parse_input_collected(sources.val,
            parse_fields(ts_.fields, 1,
                [attributes |-> <<>>, uniforms |-> <<>>,
                 program_data |-> "None"]))

\* parse_input once the struct attributes are read: the two shape checks
parse_input_shape(ts_, sources) ==
    IF ~sources.ok THEN sources
    ELSE IF ts_.kind \in {"enum", "union"}
    THEN Err("willow::Program can only derive from structs")
    ELSE IF ts_.kind # "struct_named"
    THEN Err("willow::Program can only derive from named structs")
    ELSE parse_input_collected(sources.val,
            parse_fields(ts_.fields, 1,
                [attributes |-> <<>>, uniforms |-> <<>>,
                 program_data |-> "None"]))

parse_input(ts_) ==
    parse_input_shape(ts_,
        parse_struct_attrs(ts_.attrs, 1,
            [vertex_source |-> NoSource, fragment_source |-> NoSource]))

(***************************************************************************)
(* gen.rs: the generated items, as data.  A type is a string ("()" is the  *)
(* empty placeholder); a position of an impl header is either a concrete   *)
(* type or one of the impl's generic parameters.                           *)
(***************************************************************************)
UnitType == "()"
Concrete(ty) == [generic |-> FALSE, name |-> ty]
Generic(name) == [generic |-> TRUE, name |-> name]

Indexes(seq) == 1..Len(seq)

\* gen_builder: generics, one "Has<Field>" parameter per uniform
builder_generics(input) ==
    [j \in Indexes(input.uniforms) |-> Generic(input.uniforms[j].field)]

\* mutant: the builder struct derives Clone only
builder_derives_NoCopy(input) == {"Clone"}

\* gen_builder: the #[derive(..)] list of the builder struct
builder_derives(input) == {"Clone", "Copy"}

\* mutant: the setter impl leaves its own position generic too
setter_empty_generics_AllGeneric(input, i) == builder_generics(input)

\* gen_builder: the Self type of the impl that holds the setter of uniform i
setter_empty_generics(input, i) ==
    [j \in Indexes(input.uniforms) |->
        IF i = j THEN Concrete(UnitType) ELSE builder_generics(input)[j]]

\* gen_builder: the return type of the setter of uniform i
setter_filled_generics(input, i) ==
    [j \in Indexes(input.uniforms) |->
        IF i = j THEN Concrete(input.uniforms[i].ty)
        ELSE builder_generics(input)[j]]

\* mutant: draw is emitted for every instantiation of the builder
draw_self_type_AllGeneric(input) == builder_generics(input)

\* gen_builder: the Self type of the impl that holds draw
draw_self_type(input) ==
    [j \in Indexes(input.uniforms) |-> Concrete(input.uniforms[j].ty)]

\* mutant: draw walks the uniforms last to first
draw_uniform_order_Reversed(input) ==
    [j \in Indexes(input.uniforms) |-> Len(input.uniforms) - j + 1]

\* gen_builder: the order in which draw walks the uniforms
draw_uniform_order(input) ==
    [j \in Indexes(input.uniforms) |-> j]

gen_builder(input) ==
    [ derives |-> builder_derives(input),
      generics |-> builder_generics(input),
      field_names |-> [j \in Indexes(input.uniforms) |-> input.uniforms[j].field],
      setters |-> [i \in Indexes(input.uniforms) |->
                     [ method |-> input.uniforms[i].field,
                       self_ty |-> setter_empty_generics(input, i),
                       param_ty |-> input.uniforms[i].ty,
                       ret_ty |-> setter_filled_generics(input, i) ]],
      draw |-> [ method |-> "draw",
                 self_ty |-> draw_self_type(input),
                 order |-> draw_uniform_order(input),
                 gl_names |-> [j \in Indexes(input.uniforms) |->
                                 input.uniforms[j].gl] ] ]

\* the name of the deriving struct; the derive inputs of the model are all
\* declared as `struct Foo`
input_ident == "Foo"

\* gen_program_impl: the items the later sections execute
gen_program_impl(input) ==
    [ ident |-> input_ident,
      data_field |-> input.program_data,
      init_attrs |-> [j \in Indexes(input.attributes) |-> input.attributes[j].field],
      init_uniforms |-> [j \in Indexes(input.uniforms) |-> input.uniforms[j].field],
      vert_code |-> input.vertex_source,
      frag_code |-> input.fragment_source,
      attr_names |-> [j \in Indexes(input.attributes) |-> input.attributes[j].gl],
      field_index |-> [j \in Indexes(input.attributes) |-> j - 1],
      with_uniforms_ty |->
          [j \in Indexes(input.uniforms) |-> UnitType],
      with_default_uniforms_ty |->
          [j \in Indexes(input.uniforms) |-> input.uniforms[j].ty] ]

\* mutant: the arms of a reflection function are numbered from 1
define_function_FromOne(values) ==
    [i \in 1..Len(values) |-> values[i]]


\* mutant: an index past the last arm wraps around to an existing arm
define_function_Wrapping(values) ==
    [i \in 0..(2 * Len(values) - 1) |-> values[(i % Len(values)) + 1]]

\* gen_attrs::define_function: the arms `index => value` of a reflection
\* function, index being the position in the attribute list counted from 0
define_function(values) ==
    [i \in 0..(Len(values) - 1) |-> values[i + 1]]

\* gen_attrs: the attribute struct and the arms of its reflection functions;
\* an arm of field_offset names the field whose offset it takes, an arm of
\* field_type or field_num_comps the type whose AttributeType impl it asks
gen_attrs(input) ==
    [ field_def |-> [j \in Indexes(input.attributes) |->
                       [name |-> input.attributes[j].field,
                        ty |-> input.attributes[j].ty]],
      fields_count |-> Len(input.attributes),
      field_gl_name |-> [j \in Indexes(input.attributes) |-> input.attributes[j].gl],
      field_type |-> [j \in Indexes(input.attributes) |-> input.attributes[j].ty],
      field_normalized |->
          [j \in Indexes(input.attributes) |-> input.attributes[j].normalized],
      arms_gl_name |->
          define_function([j \in Indexes(input.attributes) |-> input.attributes[j].gl]),
      arms_offset |->
          define_function([j \in Indexes(input.attributes) |-> input.attributes[j].field]),
      arms_type |->
          define_function([j \in Indexes(input.attributes) |-> input.attributes[j].ty]),
      arms_num_comps |->
          define_function([j \in Indexes(input.attributes) |-> input.attributes[j].ty]),
      arms_normalized |->
          define_function([j \in Indexes(input.attributes) |->
                              input.attributes[j].normalized]) ]


\* mutant: the builder is left out of the output
gen_code_NoBuilder(input) ==
    [ imp |-> gen_program_impl(input),
      attrs |-> gen_attrs(input) ]

gen_code(input) ==
    [ imp |-> gen_program_impl(input),
      attrs |-> gen_attrs(input),
      builder |-> gen_builder(input) ]

(***************************************************************************)
(* codegen lib.rs: the derive entry point.                                 *)
(***************************************************************************)
\* program_imp after `let info = parse::parse_input(input)?`
program_imp_gen(info) ==
    IF ~info.ok THEN info ELSE Ok(gen_code(info.val))

program_imp(ts_) == program_imp_gen(parse_input(ts_))

\* .unwrap_or_else(|err| err.to_compile_error())
unwrap_or_compile_error(r) ==
    IF r.ok THEN [kind |-> "code", code |-> r.val]
    ELSE [kind |-> "compile_error", error |-> r.err]

\* program: the tokens handed back to the compiler
program(ts_) == unwrap_or_compile_error(program_imp(ts_))

NotExpanded == [kind |-> "pending"]


(***************************************************************************)
(* State.                                                                  *)
(***************************************************************************)
VARIABLES
    ts,          \* the derive input handed to the macro
    expanded,    \* what the macro returned: pending, code, or a compile error
    gl,          \* the linked GL program: active uniform names, attribute locations
    prog,        \* the program value: its phase and its location cells
    slots,       \* the builder values the client holds, by variable name
    lastCall,    \* the most recent call of the client
    glLog,       \* the GL calls and cell accesses made by the most recent call
    drawResult,  \* what the most recent builder draw returned
    env,         \* the build profile and the statuses the GL driver reports
    reflection,  \* the most recent reflection query and what it returned
    batch,       \* what the most recent create_programs! did and returned
    buffer       \* the vertex buffer the client prepared, once it has one

vars == <<ts, expanded, gl, prog, slots, lastCall, glLog, drawResult, env,
          reflection, batch, buffer>>

\* the client's variables that hold builders
Slots == {"a", "b"}

\* the values a client passes for a uniform; Default::default() is among them
DefaultValue == 0
UniformValues == {DefaultValue, 1}

\* the value of a builder field: the unit value (), or a uniform value
Unit == [unit |-> TRUE, v |-> 0]
Val(v) == [unit |-> FALSE, v |-> v]

\* OnceCell<..> contents
Unset == [set |-> FALSE]
Cell(x) == [set |-> TRUE, value |-> x]
None == [some |-> FALSE]
Some(x) == [some |-> TRUE, value |-> x]

\* i32 as u32, as the two 16-bit halves <<high, low>> of the result
AsU32(i) == <<(i \div 65536) % 65536, i % 65536>>
NoLoc == <<0, 0>>

Event(op, u, v, loc) == [op |-> op, u |-> u, v |-> v, loc |-> loc]

NoProgram == [phase |-> "none", uniform_location |-> <<>>, attr_location |-> <<>>]
NoCall == [op |-> "none", src |-> "none", dst |-> "none", u |-> 0, v |-> 0]
Call(op, src, dst, u, v) == [op |-> op, src |-> src, dst |-> dst, u |-> u, v |-> v]
NoResult == [kind |-> "none", name |-> "none"]
Panic(msg) == [kind |-> "Panic", name |-> msg]
\* the text the driver returns as the info log of a shader or a program
InfoLog(object) == <<"info log", object>>
\* panic!("Error .. {}: {}", stringify!(ident), log): the message arguments
StatusPanic(msg, ident, log) ==
    [kind |-> "Panic", name |-> msg, ident |-> ident, log |-> log]
NoReflection == [asked |-> FALSE]
NoBatch == [called |-> FALSE]
NoBuffer == [prepared |-> FALSE]

\* cfg(debug_assertions), and the COMPILE_STATUS of the two shaders and the
\* LINK_STATUS of the program as the driver reports them
Envs ==
    [debug : BOOLEAN, vertex_status : BOOLEAN, fragment_status : BOOLEAN,
     link_status : BOOLEAN]
DebugBuildOk ==
    [debug |-> TRUE, vertex_status |-> TRUE, fragment_status |-> TRUE,
     link_status |-> TRUE]
VertexShader == 0
FragmentShader == 1

Uninit == [state |-> "uninit"]
Moved == [state |-> "moved"]
\* a live variable holds a builder; for the claims it also records the
\* constructor its lineage began with, how often each setter was called since,
\* and whether those calls came in declaration order
Live(b, origin, calls, in_order) ==
    [state |-> "live", builder |-> b, origin |-> origin,
     setter_calls |-> calls, in_order |-> in_order]

Code == expanded.code
NUniforms == Len(Code.builder.field_names)

(***************************************************************************)
(* The structs the run-time half executes: a ProgramData field, u uniform  *)
(* fields (the first with a gl_name override) and one attribute field.     *)
(***************************************************************************)
RuntimeFields(u) ==
    <<[ty |-> TypePath(<<"ProgramData">>, "none"), attrs |-> <<>>]>>
    \o [j \in 1..u |->
          [ty |-> TypePath(<<"Uniform">>, "f32"),
           attrs |-> IF j = 1 THEN <<"gl_name">> ELSE <<>>]]
    \o <<[ty |-> TypePath(<<"Attribute">>, "i8"), attrs |-> <<>>]>>

RuntimeStructs ==
    {[kind |-> "struct_named", attrs |-> <<"path">>, fields |-> RuntimeFields(u)] :
        u \in 0..MaxUniforms}

\* the locations the linker may give to n attributes: -1 for one that is not
\* active, and distinct slots, in any order, for the active ones
AttribLocations(n) ==
    {f \in [1..n -> -1..n] :
        \A a \in 1..n : \A b \in 1..n :
            (a # b /\ f[a] >= 0) => f[a] # f[b]}

\* the GL programs a struct's shaders may link to: any subset of the declared
\* uniforms stays active; the attributes get the locations the linker chose
LinkedPrograms(input) ==
    [uniforms : SUBSET {input.uniforms[j].gl : j \in Indexes(input.uniforms)},
     attribs : AttribLocations(Len(input.attributes))]

\* what GL answers location queries from: the linked program, or nothing
\* while the program has not been linked successfully
GlView(p, e, linked) ==
    IF /\ p.phase = "linked"
       /\ e.vertex_status /\ e.fragment_status /\ e.link_status
    THEN linked
    ELSE [uniforms |-> {}, attribs |-> [j \in DOMAIN linked.attribs |-> -1]]

\* the structs of the attribute side: a ProgramData field and attribute fields
AttrFieldSyntax ==
    { [ty |-> TypePath(<<"Attribute">>, "i8"), attrs |-> <<>>],
      [ty |-> TypePath(<<"Attribute">>, "i8"), attrs |-> <<"normalized">>],
      [ty |-> TypePath(<<"Attribute">>, "i8"), attrs |-> <<"gl_name">>],
      [ty |-> TypePath(<<"i32">>, "none"), attrs |-> <<"attribute">>] }

AttrStructs ==
    {[kind |-> "struct_named", attrs |-> <<"path">>,
      fields |-> <<[ty |-> TypePath(<<"ProgramData">>, "none"), attrs |-> <<>>]>>
                 \o fs] :
        fs \in SeqsUpTo(AttrFieldSyntax, MaxAttrs)}

(***************************************************************************)
(* The generated code at run time.                                         *)
(***************************************************************************)
\* Rust method resolution: an impl header matches a builder type
Matches(self_ty, bty) ==
    /\ DOMAIN self_ty = DOMAIN bty
    /\ \A j \in DOMAIN self_ty : self_ty[j].generic \/ self_ty[j].name = bty[j]

\* the type a header position denotes once the impl's generic parameters are
\* bound by matching self_ty against the builder type bty
Instantiate(ty, self_ty, bty) ==
    [j \in DOMAIN ty |->
        IF ty[j].generic
        THEN bty[CHOOSE k \in DOMAIN self_ty : self_ty[k] = ty[j]]
        ELSE ty[j].name]

SetterCallable(code, i, b) ==
    Matches(code.builder.setters[i].self_ty, b.ty)

DrawCallable(code, b) ==
    Matches(code.builder.draw.self_ty, b.ty)

\* a value is moved out of a variable unless its type is Copy
AfterUse(code, slot) ==
    IF "Copy" \in code.builder.derives THEN slot ELSE Moved

\* with_uniforms
with_uniforms(code) ==
    [program |-> "self",
     ty |-> code.imp.with_uniforms_ty,
     fields |-> [j \in Indexes(code.builder.field_names) |-> Unit]]

\* mutant: every setter is still to be called on the default builder
with_default_uniforms_Empty(code) ==
    [program |-> "self",
     ty |-> code.imp.with_uniforms_ty,
     fields |-> [j \in Indexes(code.builder.field_names) |-> Unit]]

\* with_default_uniforms
with_default_uniforms(code) ==
    [program |-> "self",
     ty |-> code.imp.with_default_uniforms_ty,
     fields |-> [j \in Indexes(code.builder.field_names) |-> Val(DefaultValue)]]

\* mutant: the rebuilt builder takes the parameter for every field
builder_setter_Clobber(code, i, self, arg) ==
    [program |-> self.program,
     ty |-> Instantiate(code.builder.setters[i].ret_ty,
                        code.builder.setters[i].self_ty, self.ty),
     fields |-> [j \in Indexes(code.builder.field_names) |-> arg]]

\* the setter of uniform i: destructure self, rebuild with the parameter
builder_setter(code, i, self, arg) ==
    LET names == code.builder.field_names
        IndexOf(n) == CHOOSE j \in Indexes(names) : names[j] = n
        locals == [n \in {names[j] : j \in Indexes(names)} |->
                     IF n = names[i] THEN arg ELSE self.fields[IndexOf(n)]]
    IN  [program |-> self.program,
         ty |-> Instantiate(code.builder.setters[i].ret_ty,
                            code.builder.setters[i].self_ty, self.ty),
         fields |-> [j \in Indexes(names) |-> locals[names[j]]]]

\* mutant: the initialiser runs on every call and overwrites the cell
get_or_init_Requery(cell, init) ==
    [cell |-> Cell(init), queried |-> TRUE, ret |-> init]

\* OnceCell::get_or_init: the cell after the call, whether the initialiser
\* ran, and the value the call returns
get_or_init(cell, init) ==
    IF cell.set
    THEN [cell |-> cell, queried |-> FALSE, ret |-> cell.value]
    ELSE [cell |-> Cell(init), queried |-> TRUE, ret |-> init]

\* mutant: only a location that was found is kept; a miss is looked up again
Uniform_get_location_RetryMiss(cell, name, linked) ==
    IF cell.set /\ cell.value.some
    THEN [cell |-> cell, queried |-> FALSE, ret |-> cell.value]
    ELSE [cell |-> Cell(IF name \in linked.uniforms THEN Some(name) ELSE None),
          queried |-> TRUE,
          ret |-> IF name \in linked.uniforms THEN Some(name) ELSE None]

\* Uniform::get_location; the initialiser is gl.get_uniform_location
Uniform_get_location(cell, name, linked) ==
    get_or_init(cell, IF name \in linked.uniforms THEN Some(name) ELSE None)


\* mutant: the location of an attribute is its position in the struct
Attribute_get_location_Position(cell, j, linked) ==
    get_or_init(cell, AsU32(j - 1))

\* mutant: a lookup that found nothing is stored as slot 0
Attribute_get_location_MissIsZero(cell, j, linked) ==
    get_or_init(cell, AsU32(IF linked.attribs[j] < 0 THEN 0 ELSE linked.attribs[j]))

\* Attribute::get_location; the initialiser is gl.get_attrib_location as u32
Attribute_get_location(cell, j, linked) ==
    get_or_init(cell, AsU32(linked.attribs[j]))

\* what a call returns, or the panic that ends it
Returned(v) == [kind |-> "Returned", value |-> v]
NonexistentField == [kind |-> "Panic", value |-> "Nonexistent field"]

\* impl_attribute!: the GLenum and the component count of an attribute type;
\* OvrA names (f32, f32, f32)
BYTE == 5120
FLOAT == 5126
AttributeType_gl_type(ty) == IF ty = "i8" THEN BYTE ELSE FLOAT
AttributeType_num_comps(ty) == IF ty = "i8" THEN 1 ELSE 3
\* size and alignment of an attribute type in bytes
SizeOf(ty) == IF ty = "i8" THEN 1 ELSE 12
AlignOf(ty) == IF ty = "i8" THEN 1 ELSE 4

\* offset_of!(Self => name) in the #[repr(C)] attribute struct: each field
\* starts at the first multiple of its alignment after the previous field
RECURSIVE repr_C_offset(_, _)
repr_C_offset(field_def, k) ==
    IF k = 1 THEN 0
    ELSE LET end == repr_C_offset(field_def, k - 1) + SizeOf(field_def[k - 1].ty)
             al == AlignOf(field_def[k].ty)
         IN  ((end + al - 1) \div al) * al

offset_of(field_def, name) ==
    repr_C_offset(field_def,
        CHOOSE k \in DOMAIN field_def : field_def[k].name = name)

\* size_of of the #[repr(C)] attribute struct: the end of the last field,
\* rounded up to the largest alignment among the fields
size_of_attr_struct(field_def) ==
    LET n == Len(field_def)
        end == IF n = 0 THEN 0
               ELSE repr_C_offset(field_def, n) + SizeOf(field_def[n].ty)
        aligns == {AlignOf(field_def[k].ty) : k \in DOMAIN field_def} \cup {1}
        al == CHOOSE a \in aligns : \A b \in aligns : b <= a
    IN  ((end + al - 1) \div al) * al

\* the generated match of a reflection function: `match i { arms, _ => panic }`
AttrStruct_field_gl_name(code, i) ==
    IF i \in DOMAIN code.attrs.arms_gl_name
    THEN Returned(code.attrs.arms_gl_name[i]) ELSE NonexistentField
AttrStruct_field_offset(code, i) ==
    IF i \in DOMAIN code.attrs.arms_offset
    THEN Returned(offset_of(code.attrs.field_def, code.attrs.arms_offset[i]))
    ELSE NonexistentField
AttrStruct_field_type(code, i) ==
    IF i \in DOMAIN code.attrs.arms_type
    THEN Returned(AttributeType_gl_type(code.attrs.arms_type[i]))
    ELSE NonexistentField
AttrStruct_field_num_comps(code, i) ==
    IF i \in DOMAIN code.attrs.arms_num_comps
    THEN Returned(AttributeType_num_comps(code.attrs.arms_num_comps[i]))
    ELSE NonexistentField
AttrStruct_field_normalized(code, i) ==
    IF i \in DOMAIN code.attrs.arms_normalized
    THEN Returned(code.attrs.arms_normalized[i]) ELSE NonexistentField

\* every reflection function queried with the index i
AttrStruct_query(code, i) ==
    [asked |-> TRUE, i |-> i,
     fields_count |-> code.attrs.fields_count,
     field_gl_name |-> AttrStruct_field_gl_name(code, i),
     field_offset |-> AttrStruct_field_offset(code, i),
     field_type |-> AttrStruct_field_type(code, i),
     field_num_comps |-> AttrStruct_field_num_comps(code, i),
     field_normalized |-> AttrStruct_field_normalized(code, i)]

\* Buffer::bind_to_attr: the reflection calls that build the arguments, in
\* argument order, then the GL call; the first reflection call panics when
\* the index has no arm
Buffer_bind_to_attr(code, k, attr_index, field_index) ==
    IF AttrStruct_field_num_comps(code, field_index).kind = "Panic"
    THEN [panic |-> TRUE,
          log |-> <<Event("field_num_comps", k, field_index, NoLoc)>>]
    ELSE [panic |-> FALSE,
          log |-> <<Event("field_num_comps", k, field_index, NoLoc),
                    Event("field_type", k, field_index, NoLoc),
                    Event("field_normalized", k, field_index, NoLoc),
                    Event("field_offset", k, field_index, NoLoc),
                    Event("vertex_attrib_pointer", k, field_index, attr_index)>>]

\* the GL calls of the get_location r of attribute k
apply_attrs_events(code, k, r) ==
    IF r.queried
    THEN <<Event("get_attrib_location", k, 0, NoLoc),
           Event("enable_vertex_attrib_array", k, 0, r.ret)>>
    ELSE <<>>

\* apply_attrs: bind the buffer, then per attribute resolve and bind
RECURSIVE apply_attrs_from(_, _, _, _, _)
RECURSIVE apply_attrs_step(_, _, _, _, _, _)
RECURSIVE apply_attrs_bound(_, _, _, _, _, _)
apply_attrs_bound(code, cells, linked, k, log, b) ==
    IF b.panic THEN [cells |-> cells, log |-> log \o b.log, panic |-> TRUE]
    ELSE apply_attrs_from(code, cells, linked, k + 1, log \o b.log)

apply_attrs_step(code, cells, linked, k, log, r) ==
    apply_attrs_bound(code, [cells EXCEPT ![k] = r.cell], linked, k,
                      log \o apply_attrs_events(code, k, r),
                      Buffer_bind_to_attr(code, k, r.ret, code.imp.field_index[k]))

apply_attrs_from(code, cells, linked, k, log) ==
    IF k > Len(code.imp.init_attrs)
    THEN [cells |-> cells, log |-> log, panic |-> FALSE]
    ELSE apply_attrs_step(code, cells, linked, k, log,
                          Attribute_get_location(cells[k], k, linked))

apply_attrs(code, cells, linked) ==
    apply_attrs_from(code, cells, linked, 1,
                     <<Event("bind_buffer", 0, 0, NoLoc)>>)

\* Indices::draw over the whole index buffer, after apply_attrs returned a
Indices_draw(p, a) ==
    IF a.panic
    THEN [prog |-> [p EXCEPT !.attr_location = a.cells, !.phase = "panicked"],
          log |-> a.log, panic |-> TRUE]
    ELSE [prog |-> [p EXCEPT !.attr_location = a.cells],
          log |-> a.log \o <<Event("draw_elements", 0, 0, NoLoc)>>,
          panic |-> FALSE]

\* AbstractIndices::draw for a whole index buffer
AbstractIndices_draw(code, p, linked) ==
    Indices_draw(p, apply_attrs(code, p.attr_location, linked))

\* the uniform block of the builder's draw, from position k of the order; r
\* is the get_location of the uniform at that position
RECURSIVE draw_uniforms(_, _, _, _, _, _)
RECURSIVE draw_uniforms_step(_, _, _, _, _, _, _, _)
\* the calls of one get_location: the cell access, and the GL query if it ran
get_location_events(j, r) ==
    <<Event("get_location", j, 0, NoLoc)>>
    \o (IF r.queried THEN <<Event("get_uniform_location", j, 0, NoLoc)>> ELSE <<>>)

draw_uniforms_step(code, self, cells, linked, k, log, j, r) ==
    IF ~r.ret.some
    THEN [ok |-> FALSE, cells |-> [cells EXCEPT ![j] = r.cell],
          log |-> log \o get_location_events(j, r),
          name |-> code.builder.draw.gl_names[j]]
    ELSE draw_uniforms(code, self, [cells EXCEPT ![j] = r.cell], linked, k + 1,
            log \o get_location_events(j, r)
                \o <<Event("apply_uniform", j, self.fields[j].v, NoLoc)>>)

draw_uniforms_at(code, self, cells, linked, k, log, j) ==
    draw_uniforms_step(code, self, cells, linked, k, log, j,
        Uniform_get_location(cells[j], code.builder.draw.gl_names[j], linked))

draw_uniforms(code, self, cells, linked, k, log) ==
    IF k > Len(code.builder.draw.order)
    THEN [ok |-> TRUE, cells |-> cells, log |-> log, name |-> "none"]
    ELSE draw_uniforms_at(code, self, cells, linked, k, log,
                          code.builder.draw.order[k])

\* draw after the uniform block succeeded and the vertex draw d was issued
builder_draw_ok(u, d) ==
    [prog |-> d.prog, log |-> u.log \o d.log,
     result |-> IF d.panic THEN Panic("Nonexistent field")
                ELSE [kind |-> "Ok", name |-> "none"]]

\* mutant: the vertex draw is issued whether or not a location was missing
builder_draw_tail_Unchecked(code, p, linked, u) ==
    builder_draw_ok(u,
        AbstractIndices_draw(code, [p EXCEPT !.uniform_location = u.cells], linked))

\* draw after the uniform block u: `?` returns the error, else the vertex draw
builder_draw_tail(code, p, linked, u) ==
    IF ~u.ok
    THEN [prog |-> [p EXCEPT !.uniform_location = u.cells], log |-> u.log,
          result |-> [kind |-> "Err", name |-> u.name]]
    ELSE builder_draw_ok(u,
            AbstractIndices_draw(code, [p EXCEPT !.uniform_location = u.cells],
                                 linked))

\* mutant: draw does not make the program current
builder_draw_NoUse(code, self, p, linked) ==
    builder_draw_tail(code, p, linked,
        draw_uniforms(code, self, p.uniform_location, linked, 1, <<>>))

\* draw of the builder
builder_draw(code, self, p, linked) ==
    builder_draw_tail(code, p, linked,
        draw_uniforms(code, self, p.uniform_location, linked, 1,
                      <<Event("use_program", 0, 0, NoLoc)>>))

\* a phase method returned: the program value, the calls made, the outcome
Phase(p, log, result) == [prog |-> p, log |-> log, result |-> result]

\* the generated create_internally: allocate the GL objects, empty cells
create_internally(code) ==
    Phase([phase |-> "allocated",
           uniform_location |-> [j \in Indexes(code.imp.init_uniforms) |-> Unset],
           attr_location |-> [j \in Indexes(code.imp.init_attrs) |-> Unset]],
          <<Event("create_internally", 0, 0, NoLoc),
            Event("create_program", 0, 0, NoLoc),
            Event("create_shader", 0, VertexShader, NoLoc),
            Event("create_shader", 0, FragmentShader, NoLoc)>>,
          NoResult)

\* mutant: the status loop is compiled into release builds as well
compile_shaders_debug_Always(ident, p, e, log) ==
    IF ~e.vertex_status \/ ~e.fragment_status
    THEN Phase([p EXCEPT !.phase = "panicked"],
               log \o <<Event("get_shader_parameter", 0, VertexShader, NoLoc),
                        Event("get_shader_info_log", 0, VertexShader, NoLoc)>>,
               StatusPanic("Error compiling vertex shader", ident,
                           InfoLog(VertexShader)))
    ELSE Phase([p EXCEPT !.phase = "compiled"],
               log \o <<Event("get_shader_parameter", 0, VertexShader, NoLoc),
                        Event("get_shader_parameter", 0, FragmentShader, NoLoc)>>,
               NoResult)

\* the debug block of compile_shaders: the status loop over the two shaders
compile_shaders_debug(ident, p, e, log) ==
    IF ~e.debug THEN Phase([p EXCEPT !.phase = "compiled"], log, NoResult)
    ELSE IF ~e.vertex_status
    THEN Phase([p EXCEPT !.phase = "panicked"],
               log \o <<Event("get_shader_parameter", 0, VertexShader, NoLoc),
                        Event("get_shader_info_log", 0, VertexShader, NoLoc)>>,
               StatusPanic("Error compiling vertex shader", ident,
                           InfoLog(VertexShader)))
    ELSE IF ~e.fragment_status
    THEN Phase([p EXCEPT !.phase = "panicked"],
               log \o <<Event("get_shader_parameter", 0, VertexShader, NoLoc),
                        Event("get_shader_parameter", 0, FragmentShader, NoLoc),
                        Event("get_shader_info_log", 0, FragmentShader, NoLoc)>>,
               StatusPanic("Error compiling fragment shader", ident,
                           InfoLog(FragmentShader)))
    ELSE Phase([p EXCEPT !.phase = "compiled"],
               log \o <<Event("get_shader_parameter", 0, VertexShader, NoLoc),
                        Event("get_shader_parameter", 0, FragmentShader, NoLoc)>>,
               NoResult)

\* the generated compile_shaders
compile_shaders(code, p, e) ==
    compile_shaders_debug(code.imp.ident, p, e,
        <<Event("compile_shaders", 0, 0, NoLoc),
          Event("shader_source", 0, VertexShader, NoLoc),
          Event("compile_shader", 0, VertexShader, NoLoc),
          Event("shader_source", 0, FragmentShader, NoLoc),
          Event("compile_shader", 0, FragmentShader, NoLoc)>>)

\* the debug block of link_shaders
link_shaders_debug(ident, p, e, log) ==
    IF ~e.debug THEN Phase([p EXCEPT !.phase = "linked"], log, NoResult)
    ELSE IF ~e.link_status
    THEN Phase([p EXCEPT !.phase = "panicked"],
               log \o <<Event("get_program_parameter", 0, 0, NoLoc),
                        Event("get_program_info_log", 0, 0, NoLoc)>>,
               StatusPanic("Error linking", ident, InfoLog("program")))
    ELSE Phase([p EXCEPT !.phase = "linked"],
               log \o <<Event("get_program_parameter", 0, 0, NoLoc)>>,
               NoResult)

\* the generated link_shaders
link_shaders(code, p, e) ==
    link_shaders_debug(code.imp.ident, p, e,
        <<Event("link_shaders", 0, 0, NoLoc),
          Event("attach_shader", 0, VertexShader, NoLoc),
          Event("attach_shader", 0, FragmentShader, NoLoc),
          Event("link_program", 0, 0, NoLoc)>>)

\* a phase that ran after the calls in log
AfterLog(log, ph) == Phase(ph.prog, log \o ph.log, ph.result)

\* mutant: create links before it compiles
Program_create_compiled_LinkFirst(code, e, log, c) ==
    IF c.result.kind = "Panic" THEN AfterLog(log, c)
    ELSE AfterLog(log \o link_shaders(code, c.prog, e).log,
                  compile_shaders(code, c.prog, e))

\* Program::create after p.compile_shaders(context) returned c
Program_create_compiled(code, e, log, c) ==
    IF c.result.kind = "Panic" THEN AfterLog(log, c)
    ELSE AfterLog(log \o c.log, link_shaders(code, c.prog, e))

\* Program::create after create_internally returned a
Program_create_allocated(code, e, a) ==
    Program_create_compiled(code, e, a.log, compile_shaders(code, a.prog, e))

\* Program::create: create_internally, compile_shaders, link_shaders
Program_create(code, e) ==
    Program_create_allocated(code, e, create_internally(code))

(***************************************************************************)
(* create_programs![context => P1, .., Pk]                                 *)
(***************************************************************************)
\* the program types a client can list; the macro names its local after the
\* type, and a ProgramData holder is not Copy, so a listing names each type
\* at most once
ProgramTypes == 1..MaxPrograms
Listings ==
    {tys \in SeqsUpTo(ProgramTypes, MaxPrograms) :
        \A a \in DOMAIN tys : \A b \in DOMAIN tys : a # b => tys[a] # tys[b]}

\* the statuses the driver reports for the k-th listed program, in the build
\* profile e
BatchStatuses(e, k) == {es \in [1..k -> Envs] : \A i \in 1..k : es[i].debug = e.debug}

\* the calls of a phase method of the program of type ty
OfType(log, ty) == [i \in DOMAIN log |-> [log[i] EXCEPT !.u = ty]]

\* the invocation ended: the calls made, the panic or NoResult, the tuple
Batch(tys, es, log, result, programs) ==
    [called |-> TRUE, tys |-> tys, es |-> es, log |-> log, result |-> result,
     programs |-> programs]

RECURSIVE create_programs_allocate(_, _, _, _, _, _)
RECURSIVE create_programs_compile(_, _, _, _, _, _)
RECURSIVE create_programs_link(_, _, _, _, _, _)

\* the closing tuple ( var_P1, .., var_Pk, )
create_programs_tuple(tys, locals) == [i \in DOMAIN tys |-> locals[tys[i]]]

\* third repetition: var_P.link_shaders(&context), after it returned l
create_programs_linked(code, tys, es, k, locals, log, l) ==
    IF l.result.kind = "Panic"
    THEN Batch(tys, es, log \o OfType(l.log, tys[k]), l.result, <<>>)
    ELSE create_programs_link(code, tys, es, k + 1,
            [locals EXCEPT ![tys[k]].value = l.prog],
            log \o OfType(l.log, tys[k]))

create_programs_link(code, tys, es, k, locals, log) ==
    IF k > Len(tys)
    THEN Batch(tys, es, log, NoResult, create_programs_tuple(tys, locals))
    ELSE create_programs_linked(code, tys, es, k, locals, log,
            link_shaders(code, locals[tys[k]].value, es[k]))

\* second repetition: var_P.compile_shaders(&context), after it returned c
create_programs_compiled(code, tys, es, k, locals, log, c) ==
    IF c.result.kind = "Panic"
    THEN Batch(tys, es, log \o OfType(c.log, tys[k]), c.result, <<>>)
    ELSE create_programs_compile(code, tys, es, k + 1,
            [locals EXCEPT ![tys[k]].value = c.prog],
            log \o OfType(c.log, tys[k]))

create_programs_compile(code, tys, es, k, locals, log) ==
    IF k > Len(tys)
    THEN create_programs_link(code, tys, es, 1, locals, log)
    ELSE create_programs_compiled(code, tys, es, k, locals, log,
            compile_shaders(code, locals[tys[k]].value, es[k]))

\* mutant: each program is compiled and linked as soon as it is allocated
create_programs_allocated_Eager(code, tys, es, k, locals, log, a) ==
    create_programs_allocate(code, tys, es, k + 1,
        (tys[k] :> [ty |-> tys[k], value |-> a.prog]) @@ locals,
        log \o OfType(a.log, tys[k])
            \o OfType(compile_shaders(code, a.prog, es[k]).log, tys[k])
            \o OfType(link_shaders(code, a.prog, es[k]).log, tys[k]))

\* first repetition: let var_P = P::create_internally(&context), after it
\* returned a
create_programs_allocated(code, tys, es, k, locals, log, a) ==
    create_programs_allocate(code, tys, es, k + 1,
        (tys[k] :> [ty |-> tys[k], value |-> a.prog]) @@ locals,
        log \o OfType(a.log, tys[k]))

create_programs_allocate(code, tys, es, k, locals, log) ==
    IF k > Len(tys)
    THEN create_programs_compile(code, tys, es, 1, locals, log)
    ELSE create_programs_allocated(code, tys, es, k, locals, log,
            create_internally(code))

\* create_programs!: the three repetitions, then the tuple
create_programs(code, tys, es) ==
    create_programs_allocate(code, tys, es, 1, <<>>, <<>>)

(***************************************************************************)
(* Vertex draws: Program::draw_fully and the impls of AbstractIndices.     *)
(***************************************************************************)
\* std::ops::Bound<usize>
Unbounded == [bound |-> "Unbounded"]
Included(x) == [bound |-> "Included", x |-> x]
Excluded(x) == [bound |-> "Excluded", x |-> x]
BoundValues ==
    {Unbounded} \cup {Included(x) : x \in 0..(MaxCount + 1)}
                \cup {Excluded(x) : x \in 0..(MaxCount + 1)}

\* impl RangeBounds<usize>: the start bound and the end bound of a value
RangeBoundsValues == [start : BoundValues, end : BoundValues]
\* a..b, a.., .., a..=b, ..b, ..=b: the types impl_bounds! is applied to
StdRanges == {r \in RangeBoundsValues : r.start.bound # "Excluded"}

\* the index selections a client can pass: a whole index buffer of len
\* indices, a sub-range of one, or a range of vertices
IndexSelections ==
    {[kind |-> "Indices", len |-> n] : n \in 0..MaxCount}
    \cup {[kind |-> "SubIndices", len |-> n, bounds |-> r] :
             n \in 0..MaxCount, r \in StdRanges}
    \cup {[kind |-> "Range", bounds |-> r] : r \in StdRanges}

\* a vertex draw ended: the program value, the calls made, and the panic that
\* ended it or NoResult
VertexDraw(p, log, result) == [prog |-> p, log |-> log, result |-> result]
RangeExceeds == Panic("items range exceeds buffer size")
NonexistentFieldPanic == Panic("Nonexistent field")

\* draw_fully: the start and the end it computes from the bounds
draw_fully_start(items) ==
    CASE items.start.bound = "Included" -> items.start.x
      [] items.start.bound = "Excluded" -> items.start.x - 1
      [] items.start.bound = "Unbounded" -> 0
draw_fully_end(items, count) ==
    CASE items.end.bound = "Included" -> items.end.x + 1
      [] items.end.bound = "Excluded" -> items.end.x
      [] items.end.bound = "Unbounded" -> count

\* draw_fully after the assertion held and apply_attrs returned a
draw_fully_drawn(p, a, start, end) ==
    IF a.panic
    THEN VertexDraw([p EXCEPT !.attr_location = a.cells, !.phase = "panicked"],
                    a.log, NonexistentFieldPanic)
    ELSE VertexDraw([p EXCEPT !.attr_location = a.cells],
                    a.log \o <<Event("draw_arrays", start, end, NoLoc)>>, NoResult)

\* mutant: the range is not checked against the buffer
draw_fully_checked_NoAssert(code, p, linked, count, start, end) ==
    draw_fully_drawn(p, apply_attrs(code, p.attr_location, linked), start, end)

\* draw_fully from its assertion on
draw_fully_checked(code, p, linked, count, start, end) ==
    IF ~(end <= count)
    THEN VertexDraw([p EXCEPT !.phase = "panicked"], <<>>, RangeExceeds)
    ELSE draw_fully_drawn(p, apply_attrs(code, p.attr_location, linked),
                          start, end)

\* Program::draw_fully(context, mode, buffer, items)
draw_fully(code, p, linked, count, items) ==
    draw_fully_checked(code, p, linked, count,
                       draw_fully_start(items), draw_fully_end(items, count))

\* crate::resolve_range(items, len): the open bounds resolved against len,
\* or the fatal failure when the range exceeds len
resolve_range(items, len) ==
    LET start == CASE items.start.bound = "Included" -> items.start.x
                   [] items.start.bound = "Unbounded" -> 0
        end == CASE items.end.bound = "Included" -> items.end.x + 1
                 [] items.end.bound = "Excluded" -> items.end.x
                 [] items.end.bound = "Unbounded" -> len
    IN  IF end > len THEN [panic |-> TRUE]
        ELSE [panic |-> FALSE, start |-> start, end |-> end]

\* Indices::draw(mode, context, items) once resolve_range returned r
Indices_draw_resolved(r) ==
    IF r.panic THEN [panic |-> TRUE, log |-> <<>>]
    ELSE [panic |-> FALSE,
          log |-> <<Event("bind_element_buffer", 0, 0, NoLoc),
                    Event("draw_elements", r.start, r.end - r.start, NoLoc)>>]

\* Indices::draw(mode, context, items) on an index buffer of len indices
Indices_draw_items(len, items) ==
    Indices_draw_resolved(resolve_range(items, len))

\* impl AbstractIndices for Indices / for SubIndices: after apply_attrs
\* returned a, Indices::draw returned d
AbstractIndices_draw_indexed(p, a, d) ==
    IF a.panic
    THEN VertexDraw([p EXCEPT !.attr_location = a.cells, !.phase = "panicked"],
                    a.log, NonexistentFieldPanic)
    ELSE VertexDraw([p EXCEPT !.attr_location = a.cells,
                              !.phase = IF d.panic THEN "panicked" ELSE @],
                    a.log \o d.log, IF d.panic THEN RangeExceeds ELSE NoResult)

\* impl_bounds!: after apply_attrs returned a, resolve_range returned r
AbstractIndices_draw_bounds(p, a, r) ==
    IF a.panic
    THEN VertexDraw([p EXCEPT !.attr_location = a.cells, !.phase = "panicked"],
                    a.log, NonexistentFieldPanic)
    ELSE IF r.panic
    THEN VertexDraw([p EXCEPT !.attr_location = a.cells, !.phase = "panicked"],
                    a.log, RangeExceeds)
    ELSE VertexDraw([p EXCEPT !.attr_location = a.cells],
                    a.log \o <<Event("draw_arrays", r.start, r.end, NoLoc)>>,
                    NoResult)

\* AbstractIndices::draw(mode, context, program, buffer) of the selection
\* sel, after program.apply_attrs(context, buffer) returned a
AbstractIndices_draw_applied(p, a, count, sel) ==
    CASE sel.kind = "Indices" ->
            AbstractIndices_draw_indexed(p, a,
                Indices_draw_items(sel.len, [start |-> Unbounded, end |-> Unbounded]))
      [] sel.kind = "SubIndices" ->
            AbstractIndices_draw_indexed(p, a,
                Indices_draw_items(sel.len, sel.bounds))
      [] sel.kind = "Range" ->
            AbstractIndices_draw_bounds(p, a, resolve_range(sel.bounds, count))

AbstractIndices_draw_selection(code, p, linked, count, sel) ==
    AbstractIndices_draw_applied(p, apply_attrs(code, p.attr_location, linked),
                                 count, sel)

(***************************************************************************)
(* Buffer::from_slice.                                                     *)
(***************************************************************************)
\* std::slice::from_raw_parts(slice.as_ptr() as *const u8, slice.len()): the
\* length of the byte slice it makes of a slice of len records
from_raw_parts_u8(len) == len

\* mutant: the buffer records the number of bytes as its element count
Buffer_from_slice_CountsBytes(len) ==
    [buffer |-> [prepared |-> TRUE, count |-> from_raw_parts_u8(len) + 1],
     log |-> <<Event("create_buffer", 0, 0, NoLoc),
               Event("bind_buffer", 0, 0, NoLoc),
               Event("buffer_data", 0, from_raw_parts_u8(len), NoLoc)>>]

\* Buffer::from_slice(context, slice, usage) for a slice of len records: the
\* buffer it returns and the calls it makes; buffer_data carries the number
\* of bytes handed to GL
Buffer_from_slice(len) ==
    [buffer |-> [prepared |-> TRUE, count |-> len],
     log |-> <<Event("create_buffer", 0, 0, NoLoc),
               Event("bind_buffer", 0, 0, NoLoc),
               Event("buffer_data", 0, from_raw_parts_u8(len), NoLoc)>>]

\* Program::prepare_buffer(context, attrs, usage)
Program_prepare_buffer(len) == Buffer_from_slice(len)

(***************************************************************************)
(* Actions.                                                                *)
(***************************************************************************)
\* what a finished call leaves behind: the program, the calls, the outcome
DrawEffect(d) ==
    /\ prog' = d.prog
    /\ glLog' = d.log
    /\ drawResult' = d.result

\* the compiler runs the derive macro on the struct
Expand ==
    /\ expanded = NotExpanded
    /\ expanded' = program(ts)
    /\ UNCHANGED <<batch, buffer, ts, gl, prog, slots, lastCall, glLog, drawResult, env, reflection>>

\* let p = P::create(&context)
Create ==
    /\ expanded.kind = "code"
    /\ prog.phase = "none"
    /\ DrawEffect(Program_create(Code, env))
    /\ lastCall' = Call("create", "none", "none", 0, 0)
    /\ UNCHANGED <<batch, buffer, ts, expanded, gl, slots, env, reflection>>

\* let p = P::create_internally(&context)
CreateInternally ==
    /\ expanded.kind = "code"
    /\ prog.phase = "none"
    /\ DrawEffect(create_internally(Code))
    /\ lastCall' = Call("create_internally", "none", "none", 0, 0)
    /\ UNCHANGED <<batch, buffer, ts, expanded, gl, slots, env, reflection>>

\* p.compile_shaders(&context)
CompileShaders ==
    /\ expanded.kind = "code"
    /\ prog.phase = "allocated"
    /\ DrawEffect(compile_shaders(Code, prog, env))
    /\ lastCall' = Call("compile_shaders", "none", "none", 0, 0)
    /\ UNCHANGED <<batch, buffer, ts, expanded, gl, slots, env, reflection>>

\* p.link_shaders(&context)
LinkShaders ==
    /\ expanded.kind = "code"
    /\ prog.phase = "compiled"
    /\ DrawEffect(link_shaders(Code, prog, env))
    /\ lastCall' = Call("link_shaders", "none", "none", 0, 0)
    /\ UNCHANGED <<batch, buffer, ts, expanded, gl, slots, env, reflection>>

\* apply_attrs called on its own: what it leaves behind
ApplyAttrsEffect(a) ==
    /\ prog' = [prog EXCEPT !.attr_location = a.cells,
                            !.phase = IF a.panic THEN "panicked" ELSE @]
    /\ glLog' = a.log
    /\ drawResult' = IF a.panic THEN Panic("Nonexistent field") ELSE NoResult

\* p.apply_attrs(&context, &buffer)
ApplyAttrs ==
    /\ expanded.kind = "code"
    /\ prog.phase \notin {"none", "panicked"}
    /\ ApplyAttrsEffect(apply_attrs(Code, prog.attr_location,
                                    GlView(prog, env, gl)))
    /\ lastCall' = Call("apply_attrs", "none", "none", 0, 0)
    /\ UNCHANGED <<batch, buffer, ts, expanded, gl, slots, env, reflection>>

\* PAttr::fields_count() and PAttr::field_*(i), for an index i
Reflect(i) ==
    /\ expanded.kind = "code"
    /\ prog.phase # "panicked"
    /\ reflection' = AttrStruct_query(Code, i)
    /\ lastCall' = Call("reflect", "none", "none", i, 0)
    /\ glLog' = <<>>
    /\ drawResult' = NoResult
    /\ UNCHANGED <<batch, buffer, ts, expanded, gl, prog, slots, env>>

\* let (p1, .., pk) = create_programs![context => P1, .., Pk]
CreatePrograms(tys, es) ==
    /\ expanded.kind = "code"
    /\ ~batch.called
    /\ es \in BatchStatuses(env, Len(tys))
    /\ batch' = create_programs(Code, tys, es)
    /\ lastCall' = Call("create_programs", "none", "none", Len(tys), 0)
    /\ glLog' = batch'.log
    /\ drawResult' = batch'.result
    /\ UNCHANGED <<buffer, ts, expanded, gl, prog, slots, env, reflection>>

\* let buffer = P::prepare_buffer(&context, &attrs[..len], usage)
PrepareBuffer(len) ==
    /\ expanded.kind = "code"
    /\ ~buffer.prepared
    /\ buffer' = Program_prepare_buffer(len).buffer
    /\ glLog' = Program_prepare_buffer(len).log
    /\ drawResult' = NoResult
    /\ lastCall' = Call("prepare_buffer", "none", "none", len, 0)
    /\ UNCHANGED <<batch, ts, expanded, gl, prog, slots, env, reflection>>

\* p.draw_fully(&context, mode, &buffer, items)
DrawFully(items) ==
    /\ expanded.kind = "code"
    /\ prog.phase \notin {"none", "panicked"}
    /\ buffer.prepared
    /\ DrawEffect(draw_fully(Code, prog, GlView(prog, env, gl),
                                   buffer.count, items))
    /\ lastCall' = Call("draw_fully", "none", "none", items, 0)
    /\ UNCHANGED <<batch, buffer, ts, expanded, gl, slots, env, reflection>>

\* sel.draw(mode, &context, &p, &buffer)
DrawSelection(sel) ==
    /\ expanded.kind = "code"
    /\ prog.phase \notin {"none", "panicked"}
    /\ buffer.prepared
    /\ DrawEffect(AbstractIndices_draw_selection(Code, prog,
                            GlView(prog, env, gl), buffer.count, sel))
    /\ lastCall' = Call("draw_selection", "none", "none", sel, 0)
    /\ UNCHANGED <<batch, buffer, ts, expanded, gl, slots, env, reflection>>

\* let dst = p.with_uniforms()
WithUniforms(dst) ==
    /\ expanded.kind = "code"
    /\ prog.phase \notin {"none", "panicked"}
    /\ slots' = [slots EXCEPT ![dst] =
                   Live(with_uniforms(Code), "with_uniforms",
                        [j \in 1..NUniforms |-> 0], TRUE)]
    /\ lastCall' = Call("with_uniforms", "none", dst, 0, 0)
    /\ glLog' = <<>>
    /\ drawResult' = NoResult
    /\ UNCHANGED <<batch, buffer, ts, expanded, gl, prog, env, reflection>>

\* let dst = p.with_default_uniforms()
WithDefaultUniforms(dst) ==
    /\ expanded.kind = "code"
    /\ prog.phase \notin {"none", "panicked"}
    /\ slots' = [slots EXCEPT ![dst] =
                   Live(with_default_uniforms(Code), "with_default_uniforms",
                        [j \in 1..NUniforms |-> 0], TRUE)]
    /\ lastCall' = Call("with_default_uniforms", "none", dst, 0, 0)
    /\ glLog' = <<>>
    /\ drawResult' = NoResult
    /\ UNCHANGED <<batch, buffer, ts, expanded, gl, prog, env, reflection>>

\* let dst = src.<uniform i>(v)
Setter(src, i, v, dst) ==
    /\ expanded.kind = "code"
    /\ slots[src].state = "live"
    /\ i \in 1..NUniforms
    /\ SetterCallable(Code, i, slots[src].builder)
    /\ slots' = [slots EXCEPT
                   ![src] = AfterUse(Code, @),
                   ![dst] = Live(builder_setter(Code, i, slots[src].builder,
                                    Val(v)),
                                 slots[src].origin,
                                 [slots[src].setter_calls EXCEPT ![i] = @ + 1],
                                 /\ slots[src].in_order
                                 /\ \A j \in i..NUniforms :
                                       slots[src].setter_calls[j] = 0)]
    /\ lastCall' = Call("setter", src, dst, i, v)
    /\ glLog' = <<>>
    /\ drawResult' = NoResult
    /\ UNCHANGED <<batch, buffer, ts, expanded, gl, prog, env, reflection>>

\* src.draw(&context, mode, &buffer, &indices)
Draw(src) ==
    /\ expanded.kind = "code"
    /\ slots[src].state = "live"
    /\ DrawCallable(Code, slots[src].builder)
    /\ DrawEffect(builder_draw(Code, slots[src].builder, prog,
                               GlView(prog, env, gl)))
    /\ slots' = [slots EXCEPT ![src] = AfterUse(Code, @)]
    /\ lastCall' = Call("draw", src, "none", 0, 0)
    /\ UNCHANGED <<batch, buffer, ts, expanded, gl, env, reflection>>

InitRuntime ==
    /\ prog = NoProgram
    /\ slots = [s \in Slots |-> Uninit]
    /\ lastCall = NoCall
    /\ glLog = <<>>
    /\ drawResult = NoResult
    /\ reflection = NoReflection
    /\ batch = NoBatch
    /\ buffer = NoBuffer

\* the run-time half: one of the run-time structs, any GL program it links to
Init ==
    /\ ts \in RuntimeStructs
    /\ expanded = NotExpanded
    /\ gl \in LinkedPrograms(parse_input(ts).val)
    /\ env = DebugBuildOk
    /\ InitRuntime

Next ==
    \/ Expand
    \/ Create
    \/ \E dst \in Slots : WithUniforms(dst)
    \/ \E dst \in Slots : WithDefaultUniforms(dst)
    \/ \E src \in Slots, dst \in Slots, i \in 1..MaxUniforms, v \in UniformValues :
          Setter(src, i, v, dst)
    \/ \E src \in Slots : Draw(src)

Spec == Init /\ [][Next]_vars

\* macro expansion alone, over every derive input within the bounds
InitParse ==
    /\ ts \in DeriveInputs
    /\ expanded = NotExpanded
    /\ gl = [uniforms |-> {}, attribs |-> <<>>]
    /\ env = DebugBuildOk
    /\ InitRuntime

NextParse == Expand

SpecParse == InitParse /\ [][NextParse]_vars

\* the attribute side of a program: attribute binding and the reflection of
\* the attribute struct, over every choice of locations by the linker
InitProgram ==
    /\ ts \in AttrStructs
    /\ expanded = NotExpanded
    /\ gl \in LinkedPrograms(parse_input(ts).val)
    /\ env = DebugBuildOk
    /\ InitRuntime

NextProgram ==
    \/ Expand
    \/ Create
    \/ ApplyAttrs
    \/ \E i \in 0..(MaxAttrs + 1) : Reflect(i)

SpecProgram == InitProgram /\ [][NextProgram]_vars

\* the shaders all compile and link to a program with every name active
FullyLinked(input) ==
    [uniforms |-> {input.uniforms[j].gl : j \in Indexes(input.uniforms)},
     attribs |-> [j \in Indexes(input.attributes) |-> j - 1]]

\* program creation, at once or phase by phase, in every build profile and
\* with every outcome of compiling and linking
InitCreate ==
    /\ ts \in RuntimeStructs
    /\ expanded = NotExpanded
    /\ gl = FullyLinked(parse_input(ts).val)
    /\ env \in Envs
    /\ InitRuntime

NextCreate ==
    \/ Expand
    \/ Create
    \/ CreateInternally
    \/ CompileShaders
    \/ LinkShaders

SpecCreate == InitCreate /\ [][NextCreate]_vars

\* batch creation, in both build profiles and with every outcome of compiling
\* and linking each listed program
InitBatch ==
    /\ ts \in RuntimeStructs
    /\ expanded = NotExpanded
    /\ gl = FullyLinked(parse_input(ts).val)
    /\ env \in {e \in Envs : e.vertex_status /\ e.fragment_status /\ e.link_status}
    /\ InitRuntime

NextBatch ==
    \/ Expand
    \/ \E tys \in Listings : \E es \in [DOMAIN tys -> Envs] : CreatePrograms(tys, es)

SpecBatch == InitBatch /\ [][NextBatch]_vars

\* the location cells over the life of one program value: it is allocated,
\* compiled and linked phase by phase, and the client binds attributes and
\* draws with a builder at any point after the allocation
InitCache ==
    /\ ts \in RuntimeStructs
    /\ expanded = NotExpanded
    /\ gl \in LinkedPrograms(parse_input(ts).val)
    /\ env = DebugBuildOk
    /\ InitRuntime

NextCache ==
    \/ Expand
    \/ CreateInternally
    \/ CompileShaders
    \/ LinkShaders
    \/ ApplyAttrs
    \/ WithDefaultUniforms("a")
    \/ Draw("a")

SpecCache == InitCache /\ [][NextCache]_vars

\* vertex draws on a linked program, with every buffer size and every range
InitDraw ==
    /\ ts \in RuntimeStructs
    /\ expanded = NotExpanded
    /\ gl = FullyLinked(parse_input(ts).val)
    /\ env = DebugBuildOk
    /\ InitRuntime

NextDraw ==
    \/ Expand
    \/ Create
    \/ \E len \in 0..MaxCount : PrepareBuffer(len)
    \/ \E items \in RangeBoundsValues : DrawFully(items)
    \/ \E sel \in IndexSelections : DrawSelection(sel)

SpecDraw == InitDraw /\ [][NextDraw]_vars

\* buffers prepared from slices of the attribute struct, for every layout of
\* an attribute struct that has fields
InitBuffer ==
    /\ ts \in {s \in AttrStructs : Len(s.fields) >= 2}
    /\ expanded = NotExpanded
    /\ gl = FullyLinked(parse_input(ts).val)
    /\ env = DebugBuildOk
    /\ InitRuntime

NextBuffer ==
    \/ Expand
    \/ Create
    \/ \E len \in 0..MaxCount : PrepareBuffer(len)

SpecBuffer == InitBuffer /\ [][NextBuffer]_vars

\* macro expansion of named structs with several attribute and uniform fields
RoleFieldSyntax ==
    { [ty |-> TypePath(<<"ProgramData">>, "none"), attrs |-> <<>>],
      [ty |-> TypePath(<<"Attribute">>, "i8"), attrs |-> <<>>],
      [ty |-> TypePath(<<"Attribute">>, "i8"), attrs |-> <<"normalized">>],
      [ty |-> TypePath(<<"Attribute">>, "i8"), attrs |-> <<"gl_name">>],
      [ty |-> TypePath(<<"Uniform">>, "f32"), attrs |-> <<>>],
      [ty |-> TypePath(<<"i32">>, "none"), attrs |-> <<"uniform">>],
      [ty |-> TypePath(<<"i32">>, "none"), attrs |-> <<"attribute">>] }

RoleStructs ==
    [kind : {"struct_named"}, attrs : {<<"path">>},
     fields : SeqsUpTo(RoleFieldSyntax, MaxRoleFields)]

InitFields ==
    /\ ts \in RoleStructs
    /\ expanded = NotExpanded
    /\ gl = [uniforms |-> {}, attribs |-> <<>>]
    /\ env = DebugBuildOk
    /\ InitRuntime

SpecFields == InitFields /\ [][NextParse]_vars


(***************************************************************************)
(* Properties of the type-state builder (specification Spec).              *)
(***************************************************************************)
LiveSlots == {s \in Slots : slots[s].state = "live"}
IsSet(b, j) == ~b.fields[j].unit
AllSet(b) == \A j \in DOMAIN b.fields : IsSet(b, j)

\* C1: draw is callable on a builder exactly when every declared uniform is
\* set; a builder with at least one unset uniform has no draw.
C1_DrawOnlyWhenAllSet ==
    expanded.kind = "code" =>
        \A s \in LiveSlots :
            DrawCallable(Code, slots[s].builder) <=> AllSet(slots[s].builder)

\* C1 witness: a draw has run while the client also holds a builder with one
\* uniform set and another unset.
C1_Witness ==
    /\ lastCall.op = "draw"
    /\ \E s \in LiveSlots :
          /\ \E j \in DOMAIN slots[s].builder.fields : IsSet(slots[s].builder, j)
          /\ \E j \in DOMAIN slots[s].builder.fields : ~IsSet(slots[s].builder, j)

\* C2 as stated: every builder from a public constructor on which draw is
\* callable has received exactly one setter call per declared uniform.
C2_ExactlyOneSetterCallEach ==
    expanded.kind = "code" =>
        \A s \in LiveSlots :
            DrawCallable(Code, slots[s].builder) =>
                \A j \in 1..NUniforms : slots[s].setter_calls[j] = 1

\* C2 amended: a builder from with_uniforms on which draw is callable has
\* received exactly one setter call per declared uniform; a builder from
\* with_default_uniforms has draw callable at once, every uniform holding the
\* default value and no setter called; no uniform is ever set by more than one
\* setter call.
C2_SetOnceOrDefault ==
    expanded.kind = "code" =>
        \A s \in LiveSlots :
            LET b == slots[s].builder
                h == slots[s].setter_calls
            IN  /\ \A j \in 1..NUniforms : h[j] <= 1
                /\ slots[s].origin = "with_uniforms" /\ DrawCallable(Code, b)
                     => \A j \in 1..NUniforms : h[j] = 1
                /\ slots[s].origin = "with_default_uniforms"
                     => /\ DrawCallable(Code, b)
                        /\ \A j \in 1..NUniforms : h[j] = 0
                        /\ \A j \in 1..NUniforms : b.fields[j] = Val(DefaultValue)

\* C2 witness: a draw on a with_uniforms builder of two uniforms, while the
\* other variable holds a with_default_uniforms builder.
C2_Witness ==
    /\ lastCall.op = "draw"
    /\ NUniforms >= 2
    /\ slots[lastCall.src].state = "live"
    /\ slots[lastCall.src].origin = "with_uniforms"
    /\ \E s \in LiveSlots : slots[s].origin = "with_default_uniforms"

\* C3: the setter of uniform u is callable exactly on the builders in which u
\* is unset, whatever the other uniforms are; on the builder a setter returned,
\* the same setter is not callable.
C3_SetterOnlyWhenUnset ==
    expanded.kind = "code" =>
        /\ \A s \in LiveSlots : \A i \in 1..NUniforms :
              SetterCallable(Code, i, slots[s].builder)
                  <=> ~IsSet(slots[s].builder, i)
        /\ lastCall.op = "setter" =>
              ~SetterCallable(Code, lastCall.u, slots[lastCall.dst].builder)

\* C3 witness: a setter has just returned a builder in which another uniform
\* is still unset.
C3_Witness ==
    /\ lastCall.op = "setter"
    /\ \E j \in 1..NUniforms :
          /\ j # lastCall.u
          /\ ~IsSet(slots[lastCall.dst].builder, j)

\* C4: the setter of uniform i returns a builder in which uniform i holds the
\* supplied value, and the program reference and the type and value of every
\* other uniform are those of the builder it was called on.
C4_SetterFrame ==
    [][ lastCall'.op = "setter" =>
          LET old == slots[lastCall'.src].builder
              new == slots'[lastCall'.dst].builder
              i == lastCall'.u
          IN  /\ new.program = old.program
              /\ new.fields[i] = Val(lastCall'.v)
              /\ \A j \in 1..NUniforms :
                    j # i => /\ new.fields[j] = old.fields[j]
                             /\ new.ty[j] = old.ty[j] ]_vars

\* C4 witness: a setter supplied a value to one uniform of a builder whose
\* other uniform already held a different value.
C4_Witness ==
    /\ lastCall.op = "setter"
    /\ \E j \in 1..NUniforms :
          /\ j # lastCall.u
          /\ IsSet(slots[lastCall.dst].builder, j)
          /\ slots[lastCall.dst].builder.fields[j] # Val(lastCall.v)

\* C5 as stated: once a setter has been called on a builder value, that value
\* can no longer be used.
C5_SetterConsumesBuilder ==
    (lastCall.op = "setter" /\ lastCall.src # lastCall.dst)
        => slots[lastCall.src].state # "live"

\* C5 amended: a setter takes the builder by value and returns a new builder;
\* the builder type is Copy, so the builder the setter (or draw) was called on
\* stays usable and is unchanged.
C5_BuilderIsCopy ==
    [][ /\ (lastCall'.op = "setter" /\ lastCall'.src # lastCall'.dst)
            => slots'[lastCall'.src] = slots[lastCall'.src]
        /\ lastCall'.op = "draw"
            => slots'[lastCall'.src] = slots[lastCall'.src] ]_vars

\* C5 witness: after a setter call the variable it was called on still holds
\* the builder with that uniform unset, beside the returned one.
C5_Witness ==
    /\ lastCall.op = "setter"
    /\ lastCall.src # lastCall.dst
    /\ slots[lastCall.src].state = "live"
    /\ ~IsSet(slots[lastCall.src].builder, lastCall.u)
    /\ IsSet(slots[lastCall.dst].builder, lastCall.u)


(***************************************************************************)
(* Properties of the builder's draw (specification Spec).                  *)
(***************************************************************************)
UniformOps == {"get_location", "get_uniform_location", "apply_uniform"}
VertexOps == {"bind_buffer", "get_attrib_location", "enable_vertex_attrib_array",
              "vertex_attrib_pointer", "draw_elements"}
LogPositions(op, j) == {p \in DOMAIN glLog : glLog[p].op = op /\ glLog[p].u = j}

\* C6: draw resolves and uploads the uniforms in declaration order, whatever
\* the order of the setter calls was: everything done for uniform i comes
\* before anything done for uniform j > i, the location of a uniform is
\* resolved before its value is uploaded, the value uploaded is the one the
\* builder holds, and the vertex draw comes after the last upload.
C6_DeclarationOrder ==
    lastCall.op = "draw" =>
        /\ \A p \in DOMAIN glLog : \A q \in DOMAIN glLog :
              /\ ( /\ glLog[p].op \in UniformOps
                   /\ glLog[q].op \in UniformOps
                   /\ glLog[p].u < glLog[q].u ) => p < q
              /\ ( /\ glLog[p].op \in UniformOps
                   /\ glLog[q].op \in VertexOps ) => p < q
        /\ drawResult.kind = "Ok" =>
              /\ LogPositions("draw_elements", 0) # {}
              /\ \A j \in 1..NUniforms :
                    /\ Cardinality(LogPositions("get_location", j)) = 1
                    /\ Cardinality(LogPositions("apply_uniform", j)) = 1
                    /\ \A p \in LogPositions("get_location", j) :
                          \A q \in LogPositions("apply_uniform", j) :
                             /\ p < q
                             /\ glLog[q].v = slots[lastCall.src].builder.fields[j].v

\* C6 witness: a successful draw of a two-uniform builder whose setters were
\* called against declaration order.
C6_Witness ==
    /\ lastCall.op = "draw"
    /\ drawResult.kind = "Ok"
    /\ NUniforms >= 2
    /\ slots[lastCall.src].origin = "with_uniforms"
    /\ ~slots[lastCall.src].in_order

\* the declared uniforms the linked program has no location for
Unresolvable ==
    {j \in 1..NUniforms : Code.builder.draw.gl_names[j] \notin gl.uniforms}

\* C7: when the location of some declared uniform cannot be resolved, draw
\* returns an error to its caller that names the shader-side name of the
\* first such uniform, and neither apply_attrs nor the GL draw call is issued.
C7_UnresolvedUniformIsError ==
    (lastCall.op = "draw" /\ Unresolvable # {}) =>
        /\ drawResult.kind = "Err"
        /\ \E j \in Unresolvable :
              /\ \A k \in Unresolvable : j <= k
              /\ drawResult.name = Code.builder.draw.gl_names[j]
        /\ \A p \in DOMAIN glLog : glLog[p].op \notin VertexOps

\* C7 witness: a draw failed at the second uniform, after the first one had
\* been uploaded.
C7_Witness ==
    /\ lastCall.op = "draw"
    /\ drawResult.kind = "Err"
    /\ NUniforms >= 2
    /\ drawResult.name = Code.builder.draw.gl_names[2]
    /\ LogPositions("apply_uniform", 1) # {}

(***************************************************************************)
(* Properties of the macro expansion (specification SpecParse).            *)
(***************************************************************************)
\* the fields of s that take the program-data role, by the type name
\* ProgramData or by #[willow(data)]
ProgramDataFields(s) ==
    {k \in DOMAIN s.fields :
        LET f == from_field(FieldNames[k], s.fields[k])
        IN  f.ok /\ f.val.role = "ProgramData"}

\* every field of s is accepted by the field classification
FieldsClassify(s) ==
    \A k \in DOMAIN s.fields : from_field(FieldNames[k], s.fields[k]).ok

\* the struct-level annotations of s are all supported ones
AttrsSupported(s) ==
    \A k \in DOMAIN s.attrs : s.attrs[k] \in {"path", "vert", "frag", "doc"}

\* the struct-level annotations of s give a vertex / a fragment source
SuppliesVertex(s) == \E k \in DOMAIN s.attrs : s.attrs[k] \in {"path", "vert"}
SuppliesFragment(s) == \E k \in DOMAIN s.attrs : s.attrs[k] \in {"path", "frag"}

Expanded == expanded # NotExpanded

\* C8 (as claimed; the expansion does not have this property): a struct with
\* two or more fields that take the program-data role is rejected by the
\* expansion and no code is generated.
C8_TwoProgramDataFieldsRejected ==
    ( /\ Expanded
      /\ ts.kind = "struct_named"
      /\ Cardinality(ProgramDataFields(ts)) >= 2 )
    => expanded.kind = "compile_error"

\* C9: a named struct whose annotations give both shader sources and whose
\* fields all classify, but none of which takes the program-data role, is
\* rejected with the "exactly one ProgramData field" error and no code is
\* generated.
C9_NoProgramDataIsError ==
    ( /\ Expanded
      /\ ts.kind = "struct_named"
      /\ AttrsSupported(ts)
      /\ SuppliesVertex(ts)
      /\ SuppliesFragment(ts)
      /\ FieldsClassify(ts)
      /\ ProgramDataFields(ts) = {} )
    => /\ expanded.kind = "compile_error"
       /\ expanded.error =
            "Program struct must have exactly one field with type ProgramData or #[willow(data)]"

\* C9 witness: such a struct, with a uniform field, has been expanded.
C9_Witness ==
    /\ Expanded
    /\ ts.kind = "struct_named"
    /\ ts.attrs = <<"path">>
    /\ Len(ts.fields) >= 1
    /\ FieldsClassify(ts)
    /\ ProgramDataFields(ts) = {}
    /\ expanded.kind = "compile_error"

\* C10: whenever the struct-level annotations leave the vertex source or the
\* fragment source unspecified, the expansion fails and no code is generated;
\* for a named struct with supported annotations whose fields all classify,
\* the error is "Cannot infer vertex code" when the vertex source is missing
\* and "Cannot infer fragment code" when only the fragment source is missing.
C10_MissingSourceIsError ==
    Expanded =>
       /\ (~SuppliesVertex(ts) \/ ~SuppliesFragment(ts))
             => expanded.kind = "compile_error"
       /\ ( /\ ts.kind = "struct_named"
            /\ AttrsSupported(ts)
            /\ FieldsClassify(ts) )
          => /\ ~SuppliesVertex(ts)
                  => /\ expanded.kind = "compile_error"
                     /\ expanded.error = "Cannot infer vertex code"
             /\ (SuppliesVertex(ts) /\ ~SuppliesFragment(ts))
                  => /\ expanded.kind = "compile_error"
                     /\ expanded.error = "Cannot infer fragment code"

\* C10 witness: a struct with a program-data field and only the inline vertex
\* option has been expanded into the fragment-source error.
C10_Witness ==
    /\ Expanded
    /\ ts.kind = "struct_named"
    /\ ts.attrs = <<"vert">>
    /\ ProgramDataFields(ts) # {}
    /\ FieldsClassify(ts)
    /\ expanded.kind = "compile_error"
    /\ expanded.error = "Cannot infer fragment code"

\* the struct-level annotations of s use the path form / the inline form
UsesPathForm(s) == \E k \in DOMAIN s.attrs : s.attrs[k] = "path"
UsesInlineForm(s) == \E k \in DOMAIN s.attrs : s.attrs[k] \in {"vert", "frag"}

\* the last annotation of s that is one of the given kinds
LastOf(s, kinds) ==
    CHOOSE k \in DOMAIN s.attrs :
        /\ s.attrs[k] \in kinds
        /\ \A j \in DOMAIN s.attrs : s.attrs[j] \in kinds => j <= k

C12_OnlyNamedStructs ==
    (Expanded /\ ts.kind # "struct_named") =>
       /\ expanded.kind = "compile_error"
       /\ (AttrsSupported(ts) /\ ts.kind \in {"enum", "union"})
             => expanded.error = "willow::Program can only derive from structs"
       /\ (AttrsSupported(ts) /\ ts.kind \in {"struct_tuple", "struct_unit"})
             => expanded.error = "willow::Program can only derive from named structs"

\* C12 witness: a tuple struct that gives its shader sources has been
\* rejected.
C12_Witness ==
    /\ Expanded
    /\ ts.kind = "struct_tuple"
    /\ ts.attrs = <<"path">>
    /\ expanded.kind = "compile_error"

\* the role-override annotations of a field
RoleOverrides == {"data", "attribute", "uniform"}
HasOverride(f) == \E k \in DOMAIN f.attrs : f.attrs[k] \in RoleOverrides

\* the declared type of f is none of ProgramData, Attribute, Uniform
UnrelatedType(f) ==
    f.ty.segments[Len(f.ty.segments)] \notin {"ProgramData", "Attribute", "Uniform"}

\* the fields of s without an override whose declared type is unrelated
IrrelevantFields(s) ==
    {k \in DOMAIN s.fields : ~HasOverride(s.fields[k]) /\ UnrelatedType(s.fields[k])}

InGeneratedAttrs(name) ==
    \E j \in DOMAIN expanded.code.imp.init_attrs :
        expanded.code.imp.init_attrs[j] = name
InGeneratedUniforms(name) ==
    \E j \in DOMAIN expanded.code.imp.init_uniforms :
        expanded.code.imp.init_uniforms[j] = name
GeneratedAttrOf(name, ty) ==
    \E j \in DOMAIN expanded.code.imp.init_attrs :
        /\ expanded.code.imp.init_attrs[j] = name
        /\ expanded.code.attrs.field_type[j] = ty
GeneratedUniformOf(name, ty) ==
    \E j \in DOMAIN expanded.code.imp.init_uniforms :
        /\ expanded.code.imp.init_uniforms[j] = name
        /\ expanded.code.builder.setters[j].param_ty = ty
HasAttr(f, a) == \E k \in DOMAIN f.attrs : f.attrs[k] = a
LastTypeName(f) == f.ty.segments[Len(f.ty.segments)]

\* C14: in an accepted struct a field with a role override takes the role
\* and the inner type of the override whatever its declared type is, a
\* field without one takes the role and inner type its declared type
\* gives, and every field has exactly one of the three roles.
C14_OverrideHasPriority ==
    (Expanded /\ expanded.kind = "code") =>
       \A k \in DOMAIN ts.fields :
          /\ HasAttr(ts.fields[k], "attribute") =>
                /\ GeneratedAttrOf(FieldNames[k], "OvrA")
                /\ ~InGeneratedUniforms(FieldNames[k])
                /\ k \notin ProgramDataFields(ts)
          /\ HasAttr(ts.fields[k], "uniform") =>
                /\ GeneratedUniformOf(FieldNames[k], "OvrU")
                /\ ~InGeneratedAttrs(FieldNames[k])
                /\ k \notin ProgramDataFields(ts)
          /\ HasAttr(ts.fields[k], "data") =>
                /\ k \in ProgramDataFields(ts)
                /\ ~InGeneratedAttrs(FieldNames[k])
                /\ ~InGeneratedUniforms(FieldNames[k])
          /\ ~HasOverride(ts.fields[k]) =>
                /\ LastTypeName(ts.fields[k]) = "Attribute" =>
                      /\ GeneratedAttrOf(FieldNames[k], ts.fields[k].ty.arg)
                      /\ ~InGeneratedUniforms(FieldNames[k])
                      /\ k \notin ProgramDataFields(ts)
                /\ LastTypeName(ts.fields[k]) = "Uniform" =>
                      /\ GeneratedUniformOf(FieldNames[k], ts.fields[k].ty.arg)
                      /\ ~InGeneratedAttrs(FieldNames[k])
                      /\ k \notin ProgramDataFields(ts)
                /\ LastTypeName(ts.fields[k]) = "ProgramData" =>
                      /\ k \in ProgramDataFields(ts)
                      /\ ~InGeneratedAttrs(FieldNames[k])
                      /\ ~InGeneratedUniforms(FieldNames[k])
                /\ LastTypeName(ts.fields[k]) \in {"Attribute", "Uniform", "ProgramData"}
          /\ from_field(FieldNames[k], ts.fields[k]).val.role
                \in {"Attribute", "Uniform", "ProgramData"}

\* C14 witness: an accepted struct with a field declared Uniform<f32> and
\* overridden to the attribute role.
C14_Witness ==
    /\ Expanded
    /\ expanded.kind = "code"
    /\ \E k \in DOMAIN ts.fields :
          /\ LastTypeName(ts.fields[k]) = "Uniform"
          /\ HasAttr(ts.fields[k], "attribute")

(***************************************************************************)
(* Properties of the generated items (specification SpecFields).           *)
(***************************************************************************)
\* the positions of the fields of s that take the given role
FieldsOfRole(s, role) ==
    {k \in DOMAIN s.fields :
        LET f == from_field(FieldNames[k], s.fields[k])
        IN  f.ok /\ f.val.role = role}

\* the rank of position k within the set of positions K
RankIn(K, k) == Cardinality({m \in K : m <= k})

\* C15: for an accepted struct, the attribute items are exactly the
\* attribute-role fields in declaration order and the uniform items are
\* exactly the uniform-role fields in declaration order: the n-th field of a
\* role is the n-th item of its list, and the list has no other item.
C15_ListsKeepDeclarationOrder ==
    (Expanded /\ expanded.kind = "code") =>
       /\ Len(expanded.code.imp.init_attrs)
             = Cardinality(FieldsOfRole(ts, "Attribute"))
       /\ Len(expanded.code.imp.init_uniforms)
             = Cardinality(FieldsOfRole(ts, "Uniform"))
       /\ \A k \in FieldsOfRole(ts, "Attribute") :
             expanded.code.imp.init_attrs[RankIn(FieldsOfRole(ts, "Attribute"), k)]
                = FieldNames[k]
       /\ \A k \in FieldsOfRole(ts, "Uniform") :
             expanded.code.imp.init_uniforms[RankIn(FieldsOfRole(ts, "Uniform"), k)]
                = FieldNames[k]

\* C15 witness: an accepted struct with two attribute fields around its
\* program-data field.
C15_Witness ==
    /\ Expanded
    /\ expanded.kind = "code"
    /\ FieldsOfRole(ts, "Attribute") = {1, 3}

(***************************************************************************)
(* Properties of the derive entry point (specification SpecParse).         *)
(***************************************************************************)
\* C16: the expansion returns either the complete output - the program impl,
\* the attribute struct with its reflection and the uniform builder - and no
\* error, exactly when parsing succeeds, or a compile error and nothing of
\* the generated code, exactly when parsing fails.
C16_CodeOrErrorNeverBoth ==
    Expanded =>
       \/ /\ parse_input(ts).ok
          /\ expanded.kind = "code"
          /\ DOMAIN expanded = {"kind", "code"}
          /\ DOMAIN expanded.code = {"imp", "attrs", "builder"}
       \/ /\ ~parse_input(ts).ok
          /\ expanded.kind = "compile_error"
          /\ DOMAIN expanded = {"kind", "error"}
          /\ expanded.error = parse_input(ts).err

\* C16 witness: a struct whose first field classifies and whose second field
\* is rejected has been expanded into the compile error alone.
C16_Witness ==
    /\ Expanded
    /\ ts.kind = "struct_named"
    /\ ts.attrs = <<"path">>
    /\ Len(ts.fields) = 2
    /\ ProgramDataFields(ts) = {1}
    /\ ~from_field(FieldNames[2], ts.fields[2]).ok
    /\ expanded.kind = "compile_error"

(***************************************************************************)
(* Properties of the attribute side (specification SpecProgram).           *)
(***************************************************************************)
\* the number of attribute fields of the struct
NAttrs == Cardinality(FieldsOfRole(ts, "Attribute"))

\* the field of the struct that is its i-th attribute, counted from 0
AttrField(i) ==
    ts.fields[CHOOSE k \in FieldsOfRole(ts, "Attribute") :
                 RankIn(FieldsOfRole(ts, "Attribute"), k) = i + 1]
AttrFieldName(i) ==
    FieldNames[CHOOSE k \in FieldsOfRole(ts, "Attribute") :
                  RankIn(FieldsOfRole(ts, "Attribute"), k) = i + 1]

ReflectionOps == {"field_num_comps", "field_type", "field_normalized", "field_offset"}

\* C17: fields_count() is the number N of attribute fields; for an index
\* i < N every reflection function returns, and describes the i-th attribute
\* field in declaration order: its shader-side name, the offset of that
\* field, the scalar code and the component count of its type, and its
\* normalized flag.  apply_attrs calls the reflection functions with the
\* indices 0..N-1, each once per function, and with no other index.
C17_ReflectionDescribesAttributes ==
    /\ (lastCall.op = "reflect") =>
          /\ reflection.fields_count = NAttrs
          /\ reflection.i < NAttrs =>
                /\ reflection.field_gl_name =
                      Returned(IF HasAttr(AttrField(reflection.i), "gl_name")
                               THEN "custom" ELSE AttrFieldName(reflection.i))
                /\ reflection.field_offset =
                      Returned(offset_of(Code.attrs.field_def,
                                         AttrFieldName(reflection.i)))
                /\ reflection.field_type =
                      Returned(IF HasAttr(AttrField(reflection.i), "attribute")
                               THEN FLOAT ELSE BYTE)
                /\ reflection.field_num_comps =
                      Returned(IF HasAttr(AttrField(reflection.i), "attribute")
                               THEN 3 ELSE 1)
                /\ reflection.field_normalized =
                      Returned(HasAttr(AttrField(reflection.i), "normalized"))
    /\ (lastCall.op = "apply_attrs") =>
          /\ drawResult.kind # "Panic"
          /\ \A p \in DOMAIN glLog :
                glLog[p].op \in ReflectionOps => glLog[p].v \in 0..(NAttrs - 1)
          /\ \A i \in 0..(NAttrs - 1) : \A op \in ReflectionOps :
                Cardinality({p \in DOMAIN glLog :
                                glLog[p].op = op /\ glLog[p].v = i}) = 1

\* C17 witness: the second of two attributes of different types has been
\* queried.
C17_Witness ==
    /\ lastCall.op = "reflect"
    /\ NAttrs = 2
    /\ reflection.i = 1
    /\ ~HasAttr(AttrField(0), "attribute")
    /\ reflection.field_type = Returned(FLOAT)

\* C18: for an index i >= N each of the five indexed reflection functions
\* panics with "Nonexistent field" and returns no value, also when N = 0.
C18_OutOfRangeIndexPanics ==
    (lastCall.op = "reflect" /\ reflection.i >= NAttrs) =>
       /\ reflection.field_gl_name = NonexistentField
       /\ reflection.field_offset = NonexistentField
       /\ reflection.field_type = NonexistentField
       /\ reflection.field_num_comps = NonexistentField
       /\ reflection.field_normalized = NonexistentField

\* C18 witness: index 0 of a struct without attributes has been queried.
C18_Witness ==
    /\ lastCall.op = "reflect"
    /\ NAttrs = 0
    /\ reflection.i = 0
    /\ reflection.field_gl_name = NonexistentField

\* the vertex_attrib_pointer calls of the last call
PointerCalls == {p \in DOMAIN glLog : glLog[p].op = "vertex_attrib_pointer"}

\* C19 (as claimed; the code does not have this property): the slot number
\* apply_attrs passes to vertex_attrib_pointer for the attribute at
\* declaration position i is i.
C19_SlotIsDeclarationIndex ==
    (lastCall.op = "apply_attrs") =>
       \A p \in PointerCalls : glLog[p].loc = AsU32(glLog[p].v)

\* C19 (amended): apply_attrs makes one vertex_attrib_pointer call per
\* attribute, in declaration order; the call for the attribute at
\* declaration position i takes its size, type, normalized flag and offset
\* from reflection index i, and its slot number is the location GL reported
\* for that attribute's shader-side name, as an unsigned 32-bit value.
C19_SlotIsGlLocation ==
    (lastCall.op = "apply_attrs") =>
       /\ Cardinality(PointerCalls) = NAttrs
       /\ \A p \in PointerCalls :
             /\ glLog[p].v = glLog[p].u - 1
             /\ glLog[p].loc = AsU32(gl.attribs[glLog[p].u])
             /\ \A q \in PointerCalls : glLog[p].u < glLog[q].u => p < q

\* C19 witness: two attributes were bound whose locations are in the
\* opposite order of their declaration.
C19_Witness ==
    /\ lastCall.op = "apply_attrs"
    /\ NAttrs = 2
    /\ gl.attribs = <<1, 0>>
    /\ Cardinality(PointerCalls) = 2

(***************************************************************************)
(* Properties of program creation (specification SpecCreate).              *)
(***************************************************************************)
PhaseOps == {"create_internally", "compile_shaders", "link_shaders"}
IsPhaseCall(e) == e.op \in PhaseOps
PhaseCall(op) == Event(op, 0, 0, NoLoc)

\* the phase methods entered during the last call, in order
PhasesEntered == SelectSeq(glLog, IsPhaseCall)

AllocateOps == {"create_program", "create_shader"}
CompileOps == {"shader_source", "compile_shader", "get_shader_parameter",
               "get_shader_info_log"}
LinkOps == {"attach_shader", "link_program", "get_program_parameter",
            "get_program_info_log"}

\* the GL calls of the last call each lie inside the phase they belong to
GlCallsInsideTheirPhase ==
    \A p \in DOMAIN glLog : \A q \in DOMAIN glLog :
       /\ (glLog[p].op \in AllocateOps /\ glLog[q].op = "create_internally") => q < p
       /\ (glLog[p].op \in AllocateOps /\ glLog[q].op = "compile_shaders") => p < q
       /\ (glLog[p].op \in CompileOps /\ glLog[q].op = "compile_shaders") => q < p
       /\ (glLog[p].op \in CompileOps /\ glLog[q].op = "link_shaders") => p < q
       /\ (glLog[p].op \in LinkOps /\ glLog[q].op = "link_shaders") => q < p

\* C20: a create that returns has entered create_internally, compile_shaders
\* and link_shaders exactly once each, in that order, on the program it
\* returns, which is then linked; a create that a debug status check ends
\* has entered them in that order up to the phase that panicked.  A phase
\* method called on its own enters no other phase method.
C20_CreateRunsPhasesInOrder ==
    /\ (lastCall.op = "create" /\ drawResult.kind # "Panic") =>
          /\ PhasesEntered = <<PhaseCall("create_internally"),
                               PhaseCall("compile_shaders"),
                               PhaseCall("link_shaders")>>
          /\ prog.phase = "linked"
          /\ GlCallsInsideTheirPhase
    /\ (lastCall.op = "create" /\ drawResult.kind = "Panic") =>
          /\ PhasesEntered \in
                { <<PhaseCall("create_internally"), PhaseCall("compile_shaders")>>,
                  <<PhaseCall("create_internally"), PhaseCall("compile_shaders"),
                    PhaseCall("link_shaders")>> }
          /\ GlCallsInsideTheirPhase
    /\ (lastCall.op \in PhaseOps) =>
          /\ PhasesEntered = <<PhaseCall(lastCall.op)>>
          /\ GlCallsInsideTheirPhase

\* C20 witness: a create has returned a linked program.
C20_Witness ==
    /\ lastCall.op = "create"
    /\ drawResult.kind # "Panic"
    /\ prog.phase = "linked"
    /\ Len(PhasesEntered) = 3

(***************************************************************************)
(* Properties of batch creation (specification SpecBatch).                 *)
(***************************************************************************)
\* where the program of type ty made a call named in ops
BatchPositions(ops, ty) ==
    {p \in DOMAIN batch.log : batch.log[p].op \in ops /\ batch.log[p].u = ty}
Listed == {batch.tys[i] : i \in DOMAIN batch.tys}
InAllocate == AllocateOps \cup {"create_internally"}
InCompile == CompileOps \cup {"compile_shaders"}
InLink == LinkOps \cup {"link_shaders"}

StatusOps == {"get_shader_parameter", "get_program_parameter",
              "get_shader_info_log", "get_program_info_log"}
StatusQueried == \E p \in DOMAIN glLog : glLog[p].op \in StatusOps
CompileStatusOk == env.vertex_status /\ env.fragment_status
\* the shader whose status the loop of compile_shaders finds false first
FirstFailedShader == IF ~env.vertex_status THEN VertexShader ELSE FragmentShader

\* C22: in a debug build compile_shaders panics exactly when the compile
\* status of one of the two shaders is false, and link_shaders exactly when
\* the link status is false; the panic message carries the name of the
\* struct and the info log the driver returns for the shader (the first one
\* found failed) or the program.  In a release build compile_shaders,
\* link_shaders and create never panic, whatever the statuses, and query no
\* status and no info log.
C22_StatusCheckedOnlyInDebug ==
    /\ (lastCall.op = "compile_shaders" /\ env.debug) =>
          /\ drawResult.kind = "Panic" <=> ~CompileStatusOk
          /\ drawResult.kind = "Panic" =>
                /\ drawResult.ident = input_ident
                /\ drawResult.log = InfoLog(FirstFailedShader)
                /\ drawResult.name \in {"Error compiling vertex shader",
                                        "Error compiling fragment shader"}
    /\ (lastCall.op = "link_shaders" /\ env.debug) =>
          /\ drawResult.kind = "Panic" <=> ~env.link_status
          /\ drawResult.kind = "Panic" =>
                /\ drawResult.ident = input_ident
                /\ drawResult.log = InfoLog("program")
                /\ drawResult.name = "Error linking"
    /\ (lastCall.op = "create" /\ env.debug) =>
          (drawResult.kind = "Panic" <=> ~(CompileStatusOk /\ env.link_status))
    /\ (lastCall.op \in {"compile_shaders", "link_shaders", "create"}
          /\ ~env.debug) =>
          /\ drawResult.kind # "Panic"
          /\ ~StatusQueried
          /\ prog.phase # "panicked"

\* C22 witness: a release build compiled shaders whose compile status is
\* false, and compile_shaders returned.
C22_Witness ==
    /\ lastCall.op = "compile_shaders"
    /\ ~env.debug
    /\ ~env.fragment_status
    /\ prog.phase = "compiled"

(***************************************************************************)
(* Properties of the location cells (specification SpecCache).             *)
(***************************************************************************)
\* where the call just made issued op for field j
NextLog(op, j) == {p \in DOMAIN glLog' : glLog'[p].op = op /\ glLog'[p].u = j}
\* what GL answers a location query with at the time of the call
UniformAnswer(j) ==
    IF Code.builder.draw.gl_names[j] \in GlView(prog, env, gl).uniforms
    THEN Some(Code.builder.draw.gl_names[j]) ELSE None
AttribAnswer(k) == AsU32(GlView(prog, env, gl).attribs[k])

\* C23, one uniform field: a call on a resolved cell leaves the cell as it
\* is, issues no get_uniform_location, and acts on the cached value (a cached
\* location is uploaded to, a cached None is the draw's error); the call on
\* an unresolved cell issues the query exactly once and stores its answer;
\* nothing but get_location fills the cell.
UniformCellStep(j) ==
    LET c == prog.uniform_location[j]
        c2 == prog'.uniform_location[j]
    IN  /\ c.set =>
              /\ c2 = c
              /\ NextLog("get_uniform_location", j) = {}
              /\ NextLog("get_location", j) # {} =>
                    IF c.value.some
                    THEN NextLog("apply_uniform", j) # {}
                    ELSE /\ drawResult'.kind = "Err"
                         /\ drawResult'.name = Code.builder.draw.gl_names[j]
        /\ (~c.set /\ NextLog("get_location", j) # {}) =>
              /\ Cardinality(NextLog("get_uniform_location", j)) = 1
              /\ c2 = Cell(UniformAnswer(j))
        /\ (~c.set /\ NextLog("get_location", j) = {}) => c2 = c

\* C23, one attribute field: the same for get_attrib_location; the value
\* get_location returns is the slot passed to vertex_attrib_pointer
AttributeCellStep(k) ==
    LET c == prog.attr_location[k]
        c2 == prog'.attr_location[k]
    IN  /\ c.set =>
              /\ c2 = c
              /\ NextLog("get_attrib_location", k) = {}
        /\ (~c.set /\ c2.set) =>
              /\ Cardinality(NextLog("get_attrib_location", k)) = 1
              /\ c2 = Cell(AttribAnswer(k))
        /\ (~c.set /\ ~c2.set) => NextLog("get_attrib_location", k) = {}
        /\ c2.set =>
              \A p \in NextLog("vertex_attrib_pointer", k) : glLog'[p].loc = c2.value

\* C23: over any sequence of calls on one program value, each Attribute and
\* each Uniform field queries GL for its location at most once, in the first
\* get_location call on it; every later get_location returns the value the
\* first one stored, without a query, whatever GL would answer by then; and
\* create_internally returns a program none of whose fields has a location.
C23_LocationResolvedOnce ==
    [][ /\ \A j \in DOMAIN prog.uniform_location \cap DOMAIN prog'.uniform_location :
              UniformCellStep(j)
        /\ \A k \in DOMAIN prog.attr_location \cap DOMAIN prog'.attr_location :
              AttributeCellStep(k)
        /\ lastCall'.op = "create_internally" =>
              /\ \A j \in DOMAIN prog'.uniform_location :
                    prog'.uniform_location[j] = Unset
              /\ \A k \in DOMAIN prog'.attr_location :
                    prog'.attr_location[k] = Unset
      ]_vars

\* C23 witness: the program is linked, GL knows a uniform and the attribute,
\* yet the draw just made used the None and the 4294967295 that were cached
\* before the program was linked, without a query.
C23_Witness ==
    /\ lastCall.op = "draw"
    /\ prog.phase = "linked"
    /\ \E j \in DOMAIN prog.uniform_location :
          /\ Code.builder.draw.gl_names[j] \in gl.uniforms
          /\ prog.uniform_location[j] = Cell(None)
          /\ LogPositions("get_location", j) # {}
          /\ LogPositions("get_uniform_location", j) = {}

(***************************************************************************)
(* Properties of the vertex draws (specification SpecDraw).                *)
(***************************************************************************)
VertexDrawCalls == {"draw_fully", "draw_selection"}
\* the bounds the last vertex draw was given, and the length they are
\* resolved against: the index buffer's for an index buffer or a sub-range
\* of one, the vertex buffer's otherwise
DrawBounds ==
    IF lastCall.op = "draw_fully" THEN lastCall.u
    ELSE IF lastCall.u.kind = "Indices"
    THEN [start |-> Unbounded, end |-> Unbounded]
    ELSE lastCall.u.bounds
DrawLength ==
    IF lastCall.op = "draw_selection" /\ lastCall.u.kind \in {"Indices", "SubIndices"}
    THEN lastCall.u.len
    ELSE buffer.count
\* one past the last element the bounds select
SelectedEnd ==
    CASE DrawBounds.end.bound = "Included" -> DrawBounds.end.x + 1
      [] DrawBounds.end.bound = "Excluded" -> DrawBounds.end.x
      [] DrawBounds.end.bound = "Unbounded" -> DrawLength

BindingOps == {"bind_buffer", "get_attrib_location", "enable_vertex_attrib_array",
               "vertex_attrib_pointer"}
DrawOps == {"draw_arrays", "draw_elements"}
Issued(ops) == {p \in DOMAIN glLog : glLog[p].op \in ops}

\* the start the GL draw call was given, and the end of the range it was
\* computed from: draw_elements gets (end - start, offset start)
IssuedStart(p) == glLog[p].u
ResolvedEndOf(p) ==
    IF glLog[p].op = "draw_elements" THEN glLog[p].u + glLog[p].v
    ELSE IF lastCall.op = "draw_fully" THEN draw_fully_end(DrawBounds, DrawLength)
    ELSE resolve_range(DrawBounds, DrawLength).end

\* the resolution of open bounds and the fatal failure, common to the claim
\* as written and as amended
RangeResolvedOrFatal ==
    /\ drawResult.kind # "Err"
    /\ drawResult = RangeExceeds <=> SelectedEnd > DrawLength
    /\ drawResult = RangeExceeds => Issued(DrawOps) = {}
    /\ drawResult = NoResult =>
          /\ Cardinality(Issued(DrawOps)) = 1
          /\ \A p \in Issued(DrawOps) :
                /\ DrawBounds.start.bound = "Unbounded" => IssuedStart(p) = 0
                /\ DrawBounds.end.bound = "Unbounded" => ResolvedEndOf(p) = DrawLength

\* C24 as written: a draw over an index selection resolves an unbounded
\* start to 0 and an unbounded end to the buffer's element count, and panics
\* whenever the resolved range runs past the buffer's length; after such a
\* panic no attribute binding and no GL draw call has been issued.
C24_FailedDrawIssuesNothing ==
    lastCall.op \in VertexDrawCalls =>
       /\ RangeResolvedOrFatal
       /\ drawResult = RangeExceeds => Issued(BindingOps \cup DrawOps) = {}

\* C24 as amended: the same resolution and the same panic; after the panic
\* no GL draw call has been issued; draw_fully checks the range first and
\* has then issued no attribute binding either, whereas the AbstractIndices
\* impls (index buffer sub-range, range of vertices) call apply_attrs before
\* they resolve the range, so the vertex buffer is bound and every attribute
\* is bound to it by the time they panic.
C24_FailedDrawIssuesNoDrawCall ==
    lastCall.op \in VertexDrawCalls =>
       /\ RangeResolvedOrFatal
       /\ (drawResult = RangeExceeds /\ lastCall.op = "draw_fully") =>
             glLog = <<>>
       /\ (drawResult = RangeExceeds /\ lastCall.op = "draw_selection") =>
             /\ LogPositions("bind_buffer", 0) # {}
             /\ \A k \in DOMAIN prog.attr_location :
                   /\ prog.attr_location[k].set
                   /\ LogPositions("vertex_attrib_pointer", k) # {}

\* C24 witness: a range of vertices that runs past the vertex buffer was
\* drawn through AbstractIndices, and the draw panicked.
C24_Witness ==
    /\ lastCall.op = "draw_selection"
    /\ lastCall.u.kind = "Range"
    /\ SelectedEnd > buffer.count
    /\ drawResult = RangeExceeds

\* the start of the range a non-indexed draw computed
ResolvedStart ==
    IF lastCall.op = "draw_fully" THEN draw_fully_start(DrawBounds)
    ELSE resolve_range(DrawBounds, DrawLength).start

\* C25: every draw_arrays call that is issued, by draw_fully or by a range
\* of vertices drawn through AbstractIndices, for a range resolved to
\* [start, end) on a buffer of count records, is given first = start and the
\* vertex count end - start, so that first + count <= the buffer's count.
C25_DrawArraysInsideBuffer ==
    lastCall.op \in VertexDrawCalls =>
       \A p \in Issued({"draw_arrays"}) :
          /\ glLog[p].u = ResolvedStart
          /\ glLog[p].v = ResolvedEndOf(p) - ResolvedStart
          /\ glLog[p].u + glLog[p].v <= buffer.count

\* a builder draw on this program value has failed at uniform j: the cells of
\* the uniforms declared before j hold locations, the cell of j holds None
FailedAt(j) ==
    /\ j \in DOMAIN prog.uniform_location
    /\ prog.uniform_location[j] = Cell(None)
    /\ \A i \in 1..(j - 1) :
          /\ prog.uniform_location[i].set
          /\ prog.uniform_location[i].value.some
DrawFailedAt(j) ==
    /\ lastCall.op = "draw"
    /\ j \in DOMAIN prog.uniform_location
    /\ drawResult = [kind |-> "Err", name |-> Code.builder.draw.gl_names[j]]
    /\ \A p \in DOMAIN glLog : glLog[p].op = "get_location" => glLog[p].u <= j

\* C26: a failed uniform lookup is kept like a successful one.  A builder
\* draw that fails because uniform j has no location leaves None in j's
\* cell; from then on, whatever is called on the program (compiling it,
\* linking it, binding attributes), the cell stays as it is, and every later
\* builder draw on the program fails at j with the same error, without a
\* get_uniform_location for j.
C26_FailedLookupIsMemoized ==
    [][ \A j \in 1..MaxUniforms :
          /\ DrawFailedAt(j)' => FailedAt(j)'
          /\ FailedAt(j) =>
                /\ FailedAt(j)'
                /\ lastCall'.op = "draw" =>
                      /\ DrawFailedAt(j)'
                      /\ NextLog("get_uniform_location", j) = {}
      ]_vars

\* C26 witness: a draw failed at a uniform before the program was linked;
\* the program is linked now and GL has the uniform, and the draw just made
\* failed at it again, without a query.
C26_Witness ==
    /\ prog.phase = "linked"
    /\ \E j \in DOMAIN prog.uniform_location :
          /\ DrawFailedAt(j)
          /\ FailedAt(j)
          /\ Code.builder.draw.gl_names[j] \in gl.uniforms
          /\ LogPositions("get_uniform_location", j) = {}

(***************************************************************************)
(* What a failed builder draw has done (specification Spec).               *)
(***************************************************************************)
\* C27: a builder draw that fails at the uniform in declaration position k
\* (counted from 1 here) has made the program current as its first GL call
\* and has uploaded, once each and with the builder's values, the uniforms
\* declared before k; it has uploaded none of the uniforms from k on, and
\* it has issued no attribute binding and no GL draw call.
C27_FailedDrawHasEffects ==
    (lastCall.op = "draw" /\ drawResult.kind = "Err") =>
        \E k \in 1..NUniforms :
           /\ drawResult.name = Code.builder.draw.gl_names[k]
           /\ glLog[Len(glLog)].op \in {"get_location", "get_uniform_location"}
           /\ glLog[Len(glLog)].u = k
           /\ glLog[1].op = "use_program"
           /\ \A p \in DOMAIN glLog : glLog[p].op = "use_program" => p = 1
           /\ \A j \in 1..(k - 1) :
                 /\ Cardinality(LogPositions("apply_uniform", j)) = 1
                 /\ \A q \in LogPositions("apply_uniform", j) :
                       glLog[q].v = slots[lastCall.src].builder.fields[j].v
           /\ \A j \in k..NUniforms : LogPositions("apply_uniform", j) = {}
           /\ \A p \in DOMAIN glLog :
                 glLog[p].op \notin (VertexOps \cup {"draw_arrays"})

\* C27 witness: a draw of a builder holding the value 1 for the first
\* uniform failed at the second: the program is current and the 1 is
\* uploaded.
C27_Witness ==
    /\ lastCall.op = "draw"
    /\ drawResult.kind = "Err"
    /\ NUniforms = 2
    /\ drawResult.name = Code.builder.draw.gl_names[2]
    /\ glLog[1].op = "use_program"
    /\ \E q \in LogPositions("apply_uniform", 1) : glLog[q].v = 1

(***************************************************************************)
(* Properties of Buffer::from_slice (specification SpecBuffer).            *)
(***************************************************************************)
\* the bytes handed to gl.buffer_data by the last call
UploadedBytes == {glLog[p].v : p \in Issued({"buffer_data"})}

\* C28: Buffer::from_slice, reached through Program::prepare_buffer, uploads
\* the whole slice: the number of bytes it hands to the GL buffer upload is
\* the length of the slice times the size of one record of the attribute
\* struct, and the element count of the buffer it returns is the length of
\* the slice.
C28_WholeSliceUploaded ==
    lastCall.op = "prepare_buffer" =>
        /\ UploadedBytes = {lastCall.u * size_of_attr_struct(Code.attrs.field_def)}
        /\ buffer.prepared
        /\ buffer.count = lastCall.u

(***************************************************************************)
(* Attributes GL does not know (specification SpecProgram).                *)
(***************************************************************************)
\* 4294967295 as the halves <<high, low>> of a u32
U32Max == <<65535, 65535>>
\* the attributes whose name is not an active attribute of the linked program
NotFound == {k \in DOMAIN prog.attr_location : GlView(prog, env, gl).attribs[k] = -1}

\* C29: an attribute GL has no location for is not reported.  After any
\* apply_attrs, first or later, the cell of such an attribute holds
\* 4294967295; the call in which get_attrib_location answered -1 went on to
\* enable the vertex-attribute array 4294967295; every call, that one and
\* the later ones, passes 4294967295 as the slot to vertex_attrib_pointer,
\* binds every attribute, and returns without a failure.
C29_MissingAttributeIsU32Max ==
    lastCall.op = "apply_attrs" =>
        /\ drawResult = NoResult
        /\ prog.phase # "panicked"
        /\ \A k \in DOMAIN prog.attr_location :
              Cardinality(LogPositions("vertex_attrib_pointer", k)) = 1
        /\ \A k \in NotFound :
              /\ prog.attr_location[k] = Cell(U32Max)
              /\ \A p \in LogPositions("vertex_attrib_pointer", k) :
                    glLog[p].loc = U32Max
              /\ \A p \in LogPositions("get_attrib_location", k) :
                    \E q \in LogPositions("enable_vertex_attrib_array", k) :
                       /\ p < q
                       /\ glLog[q].loc = U32Max

\* C29 witness: an apply_attrs after the first one bound an attribute that
\* GL does not know to slot 4294967295 from the cache.
C29_Witness ==
    /\ lastCall.op = "apply_attrs"
    /\ \E k \in NotFound :
          /\ LogPositions("get_attrib_location", k) = {}
          /\ \E p \in LogPositions("vertex_attrib_pointer", k) :
                glLog[p].loc = U32Max

=============================================================================
